---------------------------- MODULE Spec2Model ----------------------------
(***************************************************************************)
(* Conference-mode streaming text segmenter and dispatcher                 *)
(* (node-hub/dora-text-segmenter, multi_participant_segmenter.py).         *)
(*                                                                         *)
(* The event loop of main() is modelled one handler per action.  Texts are *)
(* sequences of characters; every character carries, next to its glyph,    *)
(* the id of the session in which it arrived (a history tag that the code  *)
(* does not read), so that the provenance of an emitted text can be stated.*)
(***************************************************************************)
EXTENDS Integers, Sequences, FiniteSets, TLC

\* ------------------------------------------------------------------ bounds
MaxText == 2          \* text-carrying events (SESSION_START, SESSION_CHUNK) in a run
MaxGlyphs == 6        \* characters of a text handed to the segmentation engine alone

\* --------------------------------------------------------- configuration
max_segment_length          == 15    \* MAX_SEGMENT_LENGTH
AUDIO_BUFFER_LOW_WATER_MARK == 30
AUDIO_BUFFER_HIGH_WATER_MARK == 60
NoId == 0                            \* Python None for a session id / question id

None == "None"                       \* Python None for active_queue
Participants == {"pA", "pB"}
QuestionIds  == {1, 2}               \* metadata.get("question_id"), when present
Fills        == {0, 70}              \* buffer percentages below / above the water marks
punctuation_marks == {".", "!", "?", ","}
remove_speaker_id_enabled == TRUE

\* glyph sequences a text event may carry
\* ("aaaaaaa.bbbbbbb." has 16 characters: with max_segment_length = 15 it is cut
\* into the two segments "aaaaaaa." and "bbbbbbb.")
Texts == { <<>>,
           <<"a">>,
           <<"a", "a", "a", "a", "a", "a", "a", ".",
             "b", "b", "b", "b", "b", "b", "b", ".">> }

VARIABLES
    participant_names,      \* list, in order of discovery
    segment_queues,         \* participant -> deque of segments
    text_buffers,           \* participant -> residual tail
    session_timestamps,     \* participant -> deque of session markers
    current_session,        \* participant -> session id or NoId
    is_sending,             \* participant -> bool
    last_session_end_sent,  \* participant -> bool
    active_queue,           \* participant or None
    buffer_control_paused,
    audio_buffer_level,
    crashed,                \* the loop died on an uncaught exception
    clock,                  \* last value returned by time.time()
    nextSid,                \* next fresh session id (uuid4)
    text_budget,            \* text-carrying events the run may still see
    emitted,                \* history: the send_output calls on text_segment ports
                            \*          since the last control reset
    enqueued,               \* history: participant -> segments appended to its queue
                            \*          since the last control reset
    in_flight,              \* history: participant -> emissions not yet followed by an audio_complete
    purged,                 \* history: sessions superseded by a selective reset
    session_start,          \* history: session id -> timestamp of its SESSION_START
    ended,                  \* history: sessions that received their SESSION_END
    engine,                 \* one call of segment_by_punctuation: its arguments and result
    single,                 \* the single-participant segmenter (queue_based_segmenter.py):
                            \* the locals of its main() and the history of its run
    ingress,                \* history: the ports of the events received by the conference
                            \*          loop, each with the branch that handled it
    startup,                \* the environment of the node and what its entry point did
    anchors                 \* one call of assign_anchors_to_scripts: its argument and result

vars == << participant_names, segment_queues, text_buffers, session_timestamps,
           current_session, is_sending, last_session_end_sent, active_queue,
           buffer_control_paused, audio_buffer_level, crashed, clock, nextSid,
           text_budget, emitted, enqueued, in_flight, purged, session_start,
           ended, engine, single, ingress, startup, anchors >>

\* what the conference event handlers never touch
elsewhere == << engine, single, ingress, startup, anchors >>

\* what neither the segmenters nor a call of the engine touch
others == << ingress, startup, anchors >>

\* ------------------------------------------------------------------ text
Tag(glyphs, sid) == [i \in DOMAIN glyphs |-> [ch |-> glyphs[i], src |-> sid]]
Glyphs(text) == [i \in DOMAIN text |-> text[i].ch]

IsSpace(c) == c.ch = " "
IsPunct(c) == c.ch \in punctuation_marks

RECURSIVE LStrip(_)
LStrip(s) == IF s # <<>> /\ IsSpace(Head(s)) THEN LStrip(Tail(s)) ELSE s

RECURSIVE RStrip(_)
RStrip(s) == IF s # <<>> /\ IsSpace(s[Len(s)]) THEN RStrip(SubSeq(s, 1, Len(s) - 1)) ELSE s

Strip(s) == RStrip(LStrip(s))

\* re.match(r'^\[([^\]]+)\]\s*', text) and re.sub of that match
remove_speaker_id(text) ==
    LET closes == {j \in 2..Len(text) : text[j].ch = "]"} IN
    IF Len(text) >= 1 /\ text[1].ch = "[" /\ closes # {}
    THEN LET j == CHOOSE j \in closes : \A k \in closes : j <= k IN
         IF j >= 3 THEN LStrip(SubSeq(text, j + 1, Len(text))) ELSE text
    ELSE text

should_skip_segment(text) ==
    \/ Strip(text) = <<>>
    \/ \A i \in DOMAIN text : IsPunct(text[i]) \/ IsSpace(text[i])

\* re.finditer('[^P]+[P]', text) from index i: the <<start, end>> of each match
RECURSIVE finditer(_, _)
finditer(text, i) ==
    IF i > Len(text) THEN <<>>
    ELSE IF IsPunct(text[i]) THEN finditer(text, i + 1)
    ELSE LET stops == {j \in i..Len(text) : IsPunct(text[j])} IN
         IF stops = {} THEN <<>>
         ELSE LET j == CHOOSE j \in stops : \A k \in stops : j <= k IN
              << <<i, j>> >> \o finditer(text, j + 1)

\* segment_text = match.group() without .strip(): runs keep their leading blanks
RECURSIVE segment_loop_untrimmed(_, _, _, _, _, _)
segment_loop_untrimmed(text, ms, max_length, segments, accumulator, last_end) ==
    IF ms = <<>>
    THEN [segments |-> segments, accumulator |-> accumulator, last_end |-> last_end]
    ELSE
      LET m == Head(ms)
          segment_text == SubSeq(text, m[1], m[2])
          combined == accumulator \o segment_text
      IN  IF max_length > 0 /\ Len(combined) > max_length
          THEN IF accumulator # <<>>
               THEN segment_loop_untrimmed(text, Tail(ms), max_length,
                                 Append(segments, accumulator), segment_text, m[2])
               ELSE segment_loop_untrimmed(text, Tail(ms), max_length,
                                 Append(segments, segment_text), <<>>, m[2])
          ELSE segment_loop_untrimmed(text, Tail(ms), max_length, segments, combined, m[2])

\* the for-loop of segment_by_punctuation over the matches ms
RECURSIVE segment_loop(_, _, _, _, _, _)
segment_loop(text, ms, max_length, segments, accumulator, last_end) ==
    IF ms = <<>>
    THEN [segments |-> segments, accumulator |-> accumulator, last_end |-> last_end]
    ELSE
      LET m == Head(ms)
          segment_text == Strip(SubSeq(text, m[1], m[2]))
          combined == accumulator \o segment_text
      IN  IF segment_text = <<>>
          THEN segment_loop(text, Tail(ms), max_length, segments, accumulator, last_end)
          ELSE IF max_length > 0 /\ Len(combined) > max_length
          THEN IF accumulator # <<>>
               THEN segment_loop(text, Tail(ms), max_length,
                                 Append(segments, accumulator), segment_text, m[2])
               ELSE segment_loop(text, Tail(ms), max_length,
                                 Append(segments, segment_text), <<>>, m[2])
          ELSE segment_loop(text, Tail(ms), max_length, segments, combined, m[2])

\* incomplete = text[last_end:] without .strip()
segment_by_punctuation_unstripped(text, max_length) ==
    IF text = <<>>
    THEN [segments |-> <<>>, incomplete |-> <<>>, keep |-> FALSE]
    ELSE
      LET r == segment_loop(text, finditer(text, 1), max_length, <<>>, <<>>, 0)
          segments == IF r.accumulator # <<>>
                      THEN Append(r.segments, r.accumulator) ELSE r.segments
          incomplete == SubSeq(text, r.last_end + 1, Len(text))
      IN  [segments |-> segments, incomplete |-> incomplete, keep |-> incomplete # <<>>]

segment_by_punctuation(text, max_length) ==
    IF text = <<>>
    THEN [segments |-> <<>>, incomplete |-> <<>>, keep |-> FALSE]
    ELSE
      LET r == segment_loop(text, finditer(text, 1), max_length, <<>>, <<>>, 0)
          segments == IF r.accumulator # <<>>
                      THEN Append(r.segments, r.accumulator) ELSE r.segments
          incomplete == Strip(SubSeq(text, r.last_end + 1, Len(text)))
      IN  [segments |-> segments, incomplete |-> incomplete, keep |-> incomplete # <<>>]


\* ------------------------------------------------------- scheduler helpers
Range(f) == {f[i] : i \in DOMAIN f}

\* the mutable scheduler state handed through the nested calls of a handler
Cur == [segment_queues        |-> segment_queues,
        session_timestamps    |-> session_timestamps,
        is_sending            |-> is_sending,
        last_session_end_sent |-> last_session_end_sent,
        active_queue          |-> active_queue,
        emitted               |-> emitted,
        in_flight             |-> in_flight]

Commit(m) ==
    /\ segment_queues'        = m.segment_queues
    /\ session_timestamps'    = m.session_timestamps
    /\ is_sending'            = m.is_sending
    /\ last_session_end_sent' = m.last_session_end_sent
    /\ active_queue'          = m.active_queue
    /\ emitted'               = m.emitted
    /\ in_flight'             = m.in_flight

\* node.send_output(f"text_segment_{participant}", [segment["text"]], metadata);
\* the log entry also keeps is_session_end, whether the text stems from a purged
\* session, and (for the first emission after an election) the head timestamps
\* the election chose among
NoElection == [timestamp |-> 0, rivals |-> {}]

send_output(participant, segment, election) ==
    [participant    |-> participant,
     text           |-> segment.text,
     session_id     |-> segment.session_id,
     question_id    |-> segment.question_id,
     session_status |-> segment.session_status,
     is_session_end |-> segment.is_session_end,
     stale          |-> \E i \in DOMAIN segment.text : segment.text[i].src \in purged,
     election       |-> election]

ensure_participant_initialized(participant) ==
    IF participant \in Range(participant_names)
    THEN participant_names
    ELSE Append(participant_names, participant)

\* candidates.sort(key=lambda x: x[1], reverse=True): the newest session first
select_newest_session_queue(names, timestamps, queues) ==
    LET candidates == {i \in DOMAIN names :
                          timestamps[names[i]] # <<>> /\ queues[names[i]] # <<>>}
        ts(i) == timestamps[names[i]][1].timestamp
    IN  IF candidates = {} THEN None
        ELSE names[CHOOSE i \in candidates :
                      \A j \in candidates : ts(i) > ts(j) \/ (ts(i) = ts(j) /\ i <= j)]

select_oldest_session_queue(names, timestamps, queues) ==
    LET candidates == {i \in DOMAIN names :
                          timestamps[names[i]] # <<>> /\ queues[names[i]] # <<>>}
        ts(i) == timestamps[names[i]][1].timestamp
    IN  IF candidates = {} THEN None
        ELSE names[CHOOSE i \in candidates :
                      \A j \in candidates : ts(i) < ts(j) \/ (ts(i) = ts(j) /\ i <= j)]

\* what the election that activates participant chose among: its own head
\* timestamp and those of the other participants with a session and a segment
Election(m, participant) ==
    [timestamp |-> IF m.session_timestamps[participant] # <<>>
                   THEN m.session_timestamps[participant][1].timestamp ELSE 0,
     rivals    |-> {<<q, m.session_timestamps[q][1].timestamp>> :
                      q \in {r \in Participants \ {participant} :
                                m.session_timestamps[r] # <<>>
                                /\ m.segment_queues[r] # <<>>}}]

\* segment_queues[participant].pop() in place of popleft(): the newest segment first
kick_start_sending_last(m, participant) ==
    IF m.segment_queues[participant] = <<>> THEN m
    ELSE LET queue == m.segment_queues[participant]
             segment == queue[Len(queue)]
         IN  [m EXCEPT !.segment_queues[participant] = SubSeq(queue, 1, Len(queue) - 1),
                       !.emitted = Append(@, send_output(participant, segment,
                                                         Election(m, participant))),
                       !.in_flight[participant] = @ + 1,
                       !.is_sending[participant] = TRUE]

kick_start_sending(m, participant) ==
    IF m.segment_queues[participant] = <<>> THEN m
    ELSE LET segment == Head(m.segment_queues[participant]) IN
         [m EXCEPT !.segment_queues[participant] = Tail(@),
                   !.emitted = Append(@, send_output(participant, segment,
                                                     Election(m, participant))),
                   !.in_flight[participant] = @ + 1,
                   !.is_sending[participant] = TRUE]

\* without the early return on an active participant: every call elects
try_activate_queue_always(m, names) ==
    LET next_queue == select_oldest_session_queue(names, m.session_timestamps,
                                                  m.segment_queues)
    IN  IF next_queue # None
        THEN kick_start_sending([m EXCEPT !.active_queue = next_queue], next_queue)
        ELSE m

try_activate_queue(m, names) ==
    IF m.active_queue # None THEN m
    ELSE LET next_queue == select_oldest_session_queue(names, m.session_timestamps,
                                                       m.segment_queues)
         IN  IF next_queue # None
             THEN kick_start_sending([m EXCEPT !.active_queue = next_queue], next_queue)
             ELSE m

send_next_segment_for_participant(m, participant) ==
    IF m.segment_queues[participant] = <<>> THEN m
    ELSE LET segment == Head(m.segment_queues[participant]) IN
         [m EXCEPT !.segment_queues[participant] = Tail(@),
                   !.emitted = Append(@, send_output(participant, segment, NoElection)),
                   !.in_flight[participant] = @ + 1,
                   !.is_sending[participant] = TRUE,
                   !.last_session_end_sent[participant] =
                        IF segment.is_session_end THEN TRUE ELSE @]

\* without session_timestamps[completed_participant].popleft(): the marker stays
complete_session_keeps_marker(m, completed_participant, names) ==
    LET m2 == [m EXCEPT !.active_queue = None]
        next_queue == select_oldest_session_queue(names, m2.session_timestamps,
                                                  m2.segment_queues)
    IN  IF next_queue # None
        THEN kick_start_sending([m2 EXCEPT !.active_queue = next_queue], next_queue)
        ELSE m2

\* the marker is popped but active_queue is neither cleared nor elected anew
complete_session_stays_active(m, completed_participant, names) ==
    IF m.session_timestamps[completed_participant] # <<>>
    THEN [m EXCEPT !.session_timestamps[completed_participant] = Tail(@)]
    ELSE m

\* session_timestamps[completed_participant].pop() in place of popleft()
complete_session_pops_newest(m, completed_participant, names) ==
    LET m1 == IF m.session_timestamps[completed_participant] # <<>>
              THEN [m EXCEPT !.session_timestamps[completed_participant] =
                                 SubSeq(@, 1, Len(@) - 1)]
              ELSE m
        m2 == [m1 EXCEPT !.active_queue = None]
        next_queue == select_oldest_session_queue(names, m2.session_timestamps,
                                                  m2.segment_queues)
    IN  IF next_queue # None
        THEN kick_start_sending([m2 EXCEPT !.active_queue = next_queue], next_queue)
        ELSE m2

complete_session_and_activate_next(m, completed_participant, names) ==
    LET m1 == IF m.session_timestamps[completed_participant] # <<>>
              THEN [m EXCEPT !.session_timestamps[completed_participant] = Tail(@)]
              ELSE m
        m2 == [m1 EXCEPT !.active_queue = None]
        next_queue == select_oldest_session_queue(names, m2.session_timestamps,
                                                  m2.segment_queues)
    IN  IF next_queue # None
        THEN kick_start_sending([m2 EXCEPT !.active_queue = next_queue], next_queue)
        ELSE m2

\* the segments of one chunk that pass should_skip_segment, as queue entries
NewSegments(complete_segments, session_id, meta) ==
    LET kept == SelectSeq(complete_segments, LAMBDA t : ~should_skip_segment(t)) IN
    [i \in DOMAIN kept |->
        [text           |-> kept[i],
         session_id     |-> session_id,
         is_session_end |-> FALSE,
         question_id    |-> meta.question_id,
         session_status |-> meta.session_status]]

\* session_timestamps[participant][-1] if session_timestamps[participant] else {}
current_session_metadata(timestamps, participant, default_status) ==
    IF timestamps[participant] # <<>>
    THEN LET last == timestamps[participant][Len(timestamps[participant])] IN
         [question_id |-> last.question_id, session_status |-> last.session_status]
    ELSE [question_id |-> NoId, session_status |-> default_status]

SegTexts(queue) == [i \in DOMAIN queue |-> queue[i].text]

\* what the enqueue history keeps of a queue entry
Enqueued(queue) ==
    [i \in DOMAIN queue |-> [text |-> queue[i].text, session_id |-> queue[i].session_id]]

\* no call of the segmentation engine on its own
NoCall == [text |-> <<>>, max_length |-> 0, called |-> FALSE,
           segments |-> <<>>, incomplete |-> <<>>]

\* ------------------------------------------------------------------- Init
ConferenceInit(budget) ==
    /\ participant_names = <<>>
    /\ segment_queues = [p \in Participants |-> <<>>]
    /\ text_buffers = [p \in Participants |-> <<>>]
    /\ session_timestamps = [p \in Participants |-> <<>>]
    /\ current_session = [p \in Participants |-> NoId]
    /\ is_sending = [p \in Participants |-> FALSE]
    /\ last_session_end_sent = [p \in Participants |-> FALSE]
    /\ active_queue = None
    /\ buffer_control_paused = FALSE
    /\ audio_buffer_level = 0
    /\ crashed = FALSE
    /\ clock = 0
    /\ nextSid = 1
    /\ text_budget = budget
    /\ emitted = <<>>
    /\ enqueued = [p \in Participants |-> <<>>]
    /\ in_flight = [p \in Participants |-> 0]
    /\ purged = {}
    /\ session_start = <<>>
    /\ ended = {}

\* metadata = {} and the locals of the single-participant main() before its
\* first event; max_length is MAX_SEGMENT_LENGTH, budget the text events the
\* run may still see
NoMetadata == [session_status |-> "", question_id |-> NoId]

SingleInit(max_length, budget) ==
    [ segment_queue                |-> <<>>,
      is_sending                   |-> FALSE,
      current_question_id          |-> NoId,
      text_buffer                  |-> <<>>,
      pending_session_end          |-> FALSE,
      pending_session_end_metadata |-> NoMetadata,
      max_segment_length           |-> max_length,
      text_budget                  |-> budget,
      session                      |-> 1,      \* history: "ended" text events seen, plus one
      pending_session              |-> 0,      \* history: the session whose end is pending
      heard                        |-> <<>>,   \* history: the text events, in order
      out                          |-> <<>>,   \* history: the send_output calls on text_segment
      unacknowledged               |-> 0,      \* history: emissions not yet followed by a tts_complete
      resumed                      |-> FALSE ] \* history: a "resume" arrived on the reset port

\* no node launched, no script handed to the anchor assigner
NotSet == "<unset>"
NoValue == [kind |-> "unset", number |-> 0]
NoStartup == [ env       |-> [SEGMENTER_MODE               |-> NotSet,
                              MAX_SEGMENT_LENGTH           |-> NoValue,
                              AUDIO_BUFFER_LOW_WATER_MARK  |-> NoValue,
                              AUDIO_BUFFER_HIGH_WATER_MARK |-> NoValue],
               launched  |-> FALSE,
               segmenter |-> "none",     \* the main() the entry point called
               raised    |-> FALSE,      \* an uncaught exception ended the process
               config    |-> [max_segment_length |-> 0, low |-> 0, high |-> 0] ]
\* a key the dict does not hold
Absent == "<absent>"
NoAssignment == [ called       |-> FALSE,
                  environ      |-> [MALE_ANCHOR_NAME |-> NotSet, FEMALE_ANCHOR_NAME |-> NotSet],
                  scripts_data |-> [error |-> Absent, scripts_given |-> FALSE, scripts |-> <<>>,
                                    feed_title |-> Absent, feed_url |-> Absent],
                  result       |-> [returned |-> "nothing"] ]

NothingElse ==
    /\ ingress = <<>>
    /\ startup = NoStartup
    /\ anchors = NoAssignment

InitWith(budget) ==
    /\ ConferenceInit(budget)
    /\ engine = NoCall
    /\ single = SingleInit(0, 0)
    /\ NothingElse

Init == InitWith(MaxText)

\* ------------------------------------------------- participant text events
\* the part shared by the SESSION_START and SESSION_CHUNK branches
ProcessText(participant, text, timestamps) ==
    LET cleaned == IF remove_speaker_id_enabled THEN remove_speaker_id(text) ELSE text
        combined_text == text_buffers[participant] \o cleaned
        r == segment_by_punctuation(combined_text, max_segment_length)
        meta == current_session_metadata(timestamps, participant, "started")
        session_id == current_session'[participant]
        new == NewSegments(r.segments, session_id, meta)
        m == [Cur EXCEPT !.session_timestamps = timestamps,
                         !.segment_queues[participant] = @ \o new]
    IN  /\ text_buffers' = [text_buffers EXCEPT
                              ![participant] = IF r.keep THEN r.incomplete ELSE <<>>]
        /\ enqueued' = [enqueued EXCEPT ![participant] = @ \o Enqueued(new)]
        /\ Commit(try_activate_queue(m, participant_names'))

\* timestamp = time.time(): not before the previous reading
SessionStart(participant, glyphs, question_id, timestamp) ==
    /\ ~crashed
    /\ text_budget > 0
    /\ timestamp >= clock
    /\ participant_names' = ensure_participant_initialized(participant)
    /\   /\ clock' = timestamp
         /\ text_budget' = text_budget - 1
         /\ current_session' = [current_session EXCEPT ![participant] = nextSid]
         /\ ProcessText(participant, Tag(glyphs, nextSid),
               [session_timestamps EXCEPT ![participant] =
                   Append(@, [session_id     |-> nextSid,
                              timestamp      |-> timestamp,
                              question_id    |-> question_id,
                              session_status |-> "started"])])
    /\ nextSid' = nextSid + 1
    /\ session_start' = Append(session_start, timestamp)
    /\ UNCHANGED << buffer_control_paused, audio_buffer_level, crashed, purged, ended >>
    /\ UNCHANGED elsewhere

\* a chunk or an end for a participant that has no session open
no_current_session_ignored(participant) == FALSE

\* current_session[participant] is None
no_current_session(participant) == current_session[participant] = NoId

SessionChunk(participant, glyphs) ==
    /\ ~crashed
    /\ participant_names' = ensure_participant_initialized(participant)
    /\ IF no_current_session(participant)
       THEN UNCHANGED << segment_queues, text_buffers, session_timestamps,
                         current_session, is_sending, last_session_end_sent,
                         active_queue, emitted, enqueued, text_budget, in_flight >>
       ELSE /\ text_budget > 0
            /\ text_budget' = text_budget - 1
            /\ current_session' = current_session
            /\ ProcessText(participant,
                  Tag(glyphs, IF current_session[participant] \in purged
                              THEN NoId ELSE current_session[participant]),
                  session_timestamps)
    /\ UNCHANGED << buffer_control_paused, audio_buffer_level, crashed, clock,
                    nextSid, purged, session_start, ended >>
    /\ UNCHANGED elsewhere

SessionEnd(participant) ==
    /\ ~crashed
    /\ participant_names' = ensure_participant_initialized(participant)
    /\ IF no_current_session(participant)
       THEN UNCHANGED << segment_queues, text_buffers, session_timestamps,
                         current_session, is_sending, last_session_end_sent,
                         active_queue, emitted, enqueued, in_flight, ended >>
       ELSE
         LET meta == current_session_metadata(session_timestamps, participant, "ended")
             incomplete_text == Strip(text_buffers[participant])
             flush == incomplete_text # <<>> /\ ~should_skip_segment(incomplete_text)
             queue == segment_queues[participant]
             queue1 ==
               IF incomplete_text # <<>>
               THEN IF flush
                    THEN Append(queue, [text           |-> incomplete_text,
                                        session_id     |-> current_session[participant],
                                        is_session_end |-> TRUE,
                                        question_id    |-> meta.question_id,
                                        session_status |-> meta.session_status])
                    ELSE queue
               ELSE IF queue # <<>>
                    THEN [queue EXCEPT ![Len(queue)].is_session_end = TRUE]
                    ELSE queue
             m == [Cur EXCEPT !.segment_queues[participant] = queue1]
         IN  /\ text_buffers' = [text_buffers EXCEPT ![participant] =
                                    IF incomplete_text # <<>> THEN <<>> ELSE @]
             /\ enqueued' = [enqueued EXCEPT ![participant] =
                                IF flush
                                THEN Append(@, [text |-> incomplete_text,
                                                session_id |-> current_session[participant]])
                                ELSE @]
             /\ ended' = ended \cup {current_session[participant]}
             /\ current_session' = [current_session EXCEPT ![participant] = NoId]
             /\ Commit(try_activate_queue(m, participant_names'))
    /\ UNCHANGED << buffer_control_paused, audio_buffer_level, crashed, clock,
                    nextSid, text_budget, purged, session_start >>
    /\ UNCHANGED elsewhere

\* ---------------------------------------------------- audio_complete events
AudioComplete(participant) ==
    /\ ~crashed
    /\ IF participant = None
       THEN \* metadata.get("participant") is missing: the event is dropped
            UNCHANGED << crashed, segment_queues, session_timestamps, is_sending,
                         last_session_end_sent, active_queue, emitted, in_flight >>
       ELSE IF participant \notin Range(participant_names)
       THEN \* last_session_end_sent[participant] raises KeyError: the loop dies
            /\ crashed' = TRUE
            /\ UNCHANGED << segment_queues, session_timestamps, is_sending,
                            last_session_end_sent, active_queue, emitted, in_flight >>
       ELSE
         LET m0 == [Cur EXCEPT !.is_sending[participant] = FALSE,
                               !.in_flight[participant] = 0]
             queue == segment_queues[participant]
         IN  /\ crashed' = crashed
             /\ IF last_session_end_sent[participant] /\ active_queue = participant
                THEN Commit([complete_session_and_activate_next(m0, participant,
                                                                participant_names)
                               EXCEPT !.last_session_end_sent[participant] = FALSE])
                ELSE IF active_queue # participant THEN Commit(m0)
                ELSE IF buffer_control_paused THEN Commit(m0)
                ELSE IF queue = <<>> THEN Commit(m0)
                ELSE LET segment == Head(queue) IN
                     Commit([m0 EXCEPT
                        !.segment_queues[participant] = Tail(@),
                        !.emitted = Append(@, send_output(participant, segment, NoElection)),
                        !.in_flight[participant] = @ + 1,
                        !.is_sending[participant] = TRUE,
                        !.last_session_end_sent[participant] =
                             IF segment.is_session_end THEN TRUE ELSE @])
    /\ UNCHANGED << participant_names, text_buffers, current_session,
                    buffer_control_paused, audio_buffer_level, clock, nextSid,
                    text_budget, enqueued, purged, session_start, ended >>
    /\ UNCHANGED elsewhere

\* ---------------------------------------------- audio_buffer_control events
\* with >= and <= in place of > and <: a reading on a water mark flips the gate
handle_audio_buffer_control_inclusive(buffer_percentage) ==
    /\ audio_buffer_level' = buffer_percentage
    /\ IF buffer_percentage >= AUDIO_BUFFER_HIGH_WATER_MARK /\ ~buffer_control_paused
       THEN /\ buffer_control_paused' = TRUE
            /\ Commit(Cur)
       ELSE IF buffer_percentage <= AUDIO_BUFFER_LOW_WATER_MARK /\ buffer_control_paused
       THEN /\ buffer_control_paused' = FALSE
            /\ IF active_queue # None /\ segment_queues[active_queue] # <<>>
               THEN Commit(send_next_segment_for_participant(Cur, active_queue))
               ELSE Commit(Cur)
       ELSE /\ buffer_control_paused' = buffer_control_paused
            /\ Commit(Cur)

\* as if pausing also released the active queue
handle_audio_buffer_control_releases_active(buffer_percentage) ==
    /\ audio_buffer_level' = buffer_percentage
    /\ IF buffer_percentage > AUDIO_BUFFER_HIGH_WATER_MARK /\ ~buffer_control_paused
       THEN /\ buffer_control_paused' = TRUE
            /\ Commit([Cur EXCEPT !.active_queue = None])
       ELSE IF buffer_percentage < AUDIO_BUFFER_LOW_WATER_MARK /\ buffer_control_paused
       THEN /\ buffer_control_paused' = FALSE
            /\ IF active_queue # None /\ segment_queues[active_queue] # <<>>
               THEN Commit(send_next_segment_for_participant(Cur, active_queue))
               ELSE Commit(Cur)
       ELSE /\ buffer_control_paused' = buffer_control_paused
            /\ Commit(Cur)

\* without `and buffer_control_paused_ref[0]`: every low reading resumes
handle_audio_buffer_control_every_low(buffer_percentage) ==
    /\ audio_buffer_level' = buffer_percentage
    /\ IF buffer_percentage > AUDIO_BUFFER_HIGH_WATER_MARK /\ ~buffer_control_paused
       THEN /\ buffer_control_paused' = TRUE
            /\ Commit(Cur)
       ELSE IF buffer_percentage < AUDIO_BUFFER_LOW_WATER_MARK
       THEN /\ buffer_control_paused' = FALSE
            /\ IF active_queue # None /\ segment_queues[active_queue] # <<>>
               THEN Commit(send_next_segment_for_participant(Cur, active_queue))
               ELSE Commit(Cur)
       ELSE /\ buffer_control_paused' = buffer_control_paused
            /\ Commit(Cur)

handle_audio_buffer_control(buffer_percentage) ==
    /\ audio_buffer_level' = buffer_percentage
    /\ IF buffer_percentage > AUDIO_BUFFER_HIGH_WATER_MARK /\ ~buffer_control_paused
       THEN /\ buffer_control_paused' = TRUE
            /\ Commit(Cur)
       ELSE IF buffer_percentage < AUDIO_BUFFER_LOW_WATER_MARK /\ buffer_control_paused
       THEN /\ buffer_control_paused' = FALSE
            /\ IF active_queue # None /\ segment_queues[active_queue] # <<>>
               THEN Commit(send_next_segment_for_participant(Cur, active_queue))
               ELSE Commit(Cur)
       ELSE /\ buffer_control_paused' = buffer_control_paused
            /\ Commit(Cur)

BufferTelemetry(buffer_percentage) ==
    /\ ~crashed
    /\ handle_audio_buffer_control(buffer_percentage)
    /\ UNCHANGED << participant_names, text_buffers, current_session, crashed,
                    clock, nextSid, text_budget, enqueued, purged, session_start,
                    ended >>
    /\ UNCHANGED elsewhere

\* ----------------------------------------------------------- control events
\* the scheduler state a control event reads and writes
Sched == [segment_queues        |-> segment_queues,
          text_buffers          |-> text_buffers,
          session_timestamps    |-> session_timestamps,
          current_session       |-> current_session,
          is_sending            |-> is_sending,
          last_session_end_sent |-> last_session_end_sent,
          active_queue          |-> active_queue,
          buffer_control_paused |-> buffer_control_paused,
          audio_buffer_level    |-> audio_buffer_level]

CommitSched(s) ==
    /\ segment_queues'        = s.segment_queues
    /\ text_buffers'          = s.text_buffers
    /\ session_timestamps'    = s.session_timestamps
    /\ current_session'       = s.current_session
    /\ is_sending'            = s.is_sending
    /\ last_session_end_sent' = s.last_session_end_sent
    /\ active_queue'          = s.active_queue
    /\ buffer_control_paused' = s.buffer_control_paused
    /\ audio_buffer_level'    = s.audio_buffer_level

\* without is_sending[participant] = False: the sending flags survive
clear_all_keeps_sending(s) ==
    LET known(p) == p \in Range(participant_names) IN
    [s EXCEPT !.segment_queues = [p \in Participants |->
                  IF known(p) THEN <<>> ELSE s.segment_queues[p]],
              !.text_buffers = [p \in Participants |->
                  IF known(p) THEN <<>> ELSE s.text_buffers[p]],
              !.session_timestamps = [p \in Participants |->
                  IF known(p) THEN <<>> ELSE s.session_timestamps[p]],
              !.current_session = [p \in Participants |->
                  IF known(p) THEN NoId ELSE s.current_session[p]],
              !.last_session_end_sent = [p \in Participants |->
                  IF known(p) THEN FALSE ELSE s.last_session_end_sent[p]],
              !.active_queue = None,
              !.buffer_control_paused = FALSE,
              !.audio_buffer_level = 0]

\* without session_timestamps[participant].clear(): the markers survive
clear_all_keeps_sessions(s) ==
    LET known(p) == p \in Range(participant_names) IN
    [s EXCEPT !.segment_queues = [p \in Participants |->
                  IF known(p) THEN <<>> ELSE s.segment_queues[p]],
              !.text_buffers = [p \in Participants |->
                  IF known(p) THEN <<>> ELSE s.text_buffers[p]],
              !.current_session = [p \in Participants |->
                  IF known(p) THEN NoId ELSE s.current_session[p]],
              !.is_sending = [p \in Participants |->
                  IF known(p) THEN FALSE ELSE s.is_sending[p]],
              !.last_session_end_sent = [p \in Participants |->
                  IF known(p) THEN FALSE ELSE s.last_session_end_sent[p]],
              !.active_queue = None,
              !.buffer_control_paused = FALSE,
              !.audio_buffer_level = 0]

\* "Clearing all queues (no question_id)": for participant in participant_names
clear_all(s) ==
    LET known(p) == p \in Range(participant_names) IN
    [segment_queues        |-> [p \in Participants |->
                                  IF known(p) THEN <<>> ELSE s.segment_queues[p]],
     text_buffers          |-> [p \in Participants |->
                                  IF known(p) THEN <<>> ELSE s.text_buffers[p]],
     session_timestamps    |-> [p \in Participants |->
                                  IF known(p) THEN <<>> ELSE s.session_timestamps[p]],
     current_session       |-> [p \in Participants |->
                                  IF known(p) THEN NoId ELSE s.current_session[p]],
     is_sending            |-> [p \in Participants |->
                                  IF known(p) THEN FALSE ELSE s.is_sending[p]],
     last_session_end_sent |-> [p \in Participants |->
                                  IF known(p) THEN FALSE ELSE s.last_session_end_sent[p]],
     active_queue          |-> None,
     buffer_control_paused |-> FALSE,
     audio_buffer_level    |-> 0]

\* command "reset" or "cancel" without question_id
GlobalReset ==
    /\ ~crashed
    /\ CommitSched(clear_all(Sched))
    /\ emitted' = <<>>
    /\ enqueued' = [p \in Participants |-> <<>>]
    /\ UNCHANGED << participant_names, crashed, clock, nextSid, text_budget,
                    in_flight, purged, session_start, ended >>
    /\ UNCHANGED elsewhere

\* seg_question_id == incoming_question_id only: segments without an id are dropped
KeptSegments_same_id(queue, incoming_question_id) ==
    SelectSeq(queue, LAMBDA segment : segment.question_id = incoming_question_id)

\* the segments a smart reset keeps: same question_id, or none
KeptSegments(queue, incoming_question_id) ==
    SelectSeq(queue, LAMBDA segment : segment.question_id = incoming_question_id
                                      \/ segment.question_id = NoId)

\* sessions started so far whose question id is present and differs
Superseded(incoming_question_id) ==
    {marker.session_id : marker \in
        {m \in UNION {Range(session_timestamps[p]) : p \in Participants} :
            m.question_id # NoId /\ m.question_id # incoming_question_id}}

\* "Smart reset - only clear segments with DIFFERENT question_id"
smart_reset(s, incoming_question_id) ==
    LET new_queue(p) == KeptSegments(s.segment_queues[p], incoming_question_id)
        cleared(p) == p \in Range(participant_names)
                      /\ Len(new_queue(p)) < Len(s.segment_queues[p])
    IN  [s EXCEPT !.segment_queues = [p \in Participants |->
                       IF p \in Range(participant_names) THEN new_queue(p)
                       ELSE s.segment_queues[p]],
                  !.text_buffers = [p \in Participants |->
                       IF cleared(p) THEN <<>> ELSE s.text_buffers[p]],
                  !.is_sending = [p \in Participants |->
                       IF cleared(p) THEN FALSE ELSE s.is_sending[p]],
                  !.active_queue = None,
                  !.buffer_control_paused = FALSE,
                  !.audio_buffer_level = 0]

\* command "reset" or "cancel" with a question_id
SelectiveReset(incoming_question_id) ==
    /\ ~crashed
    /\ incoming_question_id # NoId
    /\ CommitSched(smart_reset(Sched, incoming_question_id))
    /\ purged' = purged \cup Superseded(incoming_question_id)
    /\ emitted' = <<>>
    /\ enqueued' = [p \in Participants |-> <<>>]
    /\ UNCHANGED << participant_names, crashed, clock, nextSid, text_budget,
                    in_flight, session_start, ended >>
    /\ UNCHANGED elsewhere

\* --------------------------------------------------------- specifications
\* time.time() at a SESSION_START: later than the previous reading
Later == {clock + 1}

StartEvent(texts, question_ids, timestamps) ==
    \E participant \in Participants, glyphs \in texts,
       question_id \in question_ids, timestamp \in timestamps :
        SessionStart(participant, glyphs, question_id, timestamp)

ChunkEvent(texts) ==
    \E participant \in Participants, glyphs \in texts :
        SessionChunk(participant, glyphs)

EndEvent == \E participant \in Participants : SessionEnd(participant)

AudioCompleteEvent == \E participant \in Participants : AudioComplete(participant)

BufferEvent(fills) == \E buffer_percentage \in fills : BufferTelemetry(buffer_percentage)

SelectiveResetEvent ==
    \E incoming_question_id \in QuestionIds : SelectiveReset(incoming_question_id)

\* audio_complete events with and without a participant in their metadata
AnyAudioCompleteEvent ==
    \E participant \in Participants \cup {None} : AudioComplete(participant)

\* every kind of event
Next ==
    \/ StartEvent(Texts, QuestionIds, Later)
    \/ ChunkEvent(Texts)
    \/ EndEvent
    \/ AudioCompleteEvent
    \/ BufferEvent(Fills)
    \/ GlobalReset
    \/ SelectiveResetEvent

Spec == Init /\ [][Next]_vars

\* runs without control events
NextNoControl ==
    \/ StartEvent(Texts, {NoId}, Later)
    \/ ChunkEvent(Texts)
    \/ EndEvent
    \/ AudioCompleteEvent
    \/ BufferEvent(Fills)

SpecNoControl == Init /\ [][NextNoControl]_vars

\* runs of text and acknowledgment events only, every text event carrying some
\* text, one more text event allowed
Words == Texts \ {<<>>}

NextSessions ==
    \/ StartEvent(Words, {NoId}, Later)
    \/ ChunkEvent(Words)
    \/ EndEvent
    \/ AudioCompleteEvent

SpecSessions == InitWith(MaxText + 1) /\ [][NextSessions]_vars

\* time.time() read twice without the clock advancing: the same value again
NotEarlier == {clock, clock + 1} \ {0}

\* the texts made of complete sentences
Sentences == {glyphs \in Texts : Len(glyphs) > 1}

\* runs in which the audio player acknowledges each emission once, and nothing else
AcknowledgeEvent ==
    \E participant \in Participants :
        in_flight[participant] > 0 /\ AudioComplete(participant)

NextAcknowledged ==
    \/ StartEvent(Texts, {NoId}, Later)
    \/ ChunkEvent(Texts)
    \/ EndEvent
    \/ AcknowledgeEvent

SpecAcknowledged == Init /\ [][NextAcknowledged]_vars

\* acknowledged runs of whole sentences in which two sessions can start at the
\* same clock reading, two more text events allowed
NextTies ==
    \/ StartEvent(Sentences, {NoId}, NotEarlier)
    \/ EndEvent
    \/ AcknowledgeEvent

SpecTies == InitWith(MaxText + 2) /\ [][NextTies]_vars

\* chunks that end up in the tail: a word, and a punctuation mark on its own
Tails == { <<"a">>, <<".">> }

\* runs of whole sentences followed by such chunks
NextTails ==
    \/ StartEvent(Sentences, {NoId}, Later)
    \/ ChunkEvent(Tails)
    \/ EndEvent
    \/ AudioCompleteEvent

SpecTails == InitWith(MaxText + 1) /\ [][NextTails]_vars

\* buffer readings below, at and above the two water marks
Levels == Fills \cup {AUDIO_BUFFER_LOW_WATER_MARK, AUDIO_BUFFER_HIGH_WATER_MARK}

\* runs of whole sentences with buffer readings at every level
NextTelemetry ==
    \/ StartEvent(Sentences, {NoId}, Later)
    \/ EndEvent
    \/ AudioCompleteEvent
    \/ BufferEvent(Levels)

SpecTelemetry == Init /\ [][NextTelemetry]_vars

\* runs of whole sentences with buffer readings at every level and resets
NextGate ==
    \/ StartEvent(Sentences, {1}, Later)
    \/ AudioCompleteEvent
    \/ BufferEvent(Levels)
    \/ GlobalReset
    \/ SelectiveResetEvent

SpecGate == Init /\ [][NextGate]_vars

\* a number closed by a terminator: "1."
Numbered == { <<"1", ".">> }

\* runs whose texts are whole sentences, numbers and punctuation marks
NextNumbers ==
    \/ StartEvent(Sentences \cup Numbered, {NoId}, Later)
    \/ ChunkEvent(Numbered \cup {<<".">>})
    \/ EndEvent
    \/ AudioCompleteEvent

SpecNumbers == Init /\ [][NextNumbers]_vars

\* ------------------------------------------- the segmentation engine alone
\* the conference variables, which a call of the engine on its own leaves alone
conference == << participant_names, segment_queues, text_buffers,
                session_timestamps, current_session, is_sending,
                last_session_end_sent, active_queue, buffer_control_paused,
                audio_buffer_level, crashed, clock, nextSid, text_budget,
                emitted, enqueued, in_flight, purged, session_start, ended >>

\* the texts of at most MaxGlyphs characters over a letter, a space and a terminator
EngineAlphabet == {"a", " ", "."}
EngineTexts == UNION {[1..n -> EngineAlphabet] : n \in 0..MaxGlyphs}

\* max_length values: capping disabled (<= 0), and caps around the run lengths
EngineLengths == {-1, 0, 1, 2, 3, 4}

\* scenario S2: "abcdefg, hij, klmnop, qrs." with MAX_SEGMENT_LENGTH = 15
ScenarioS2 == << "a", "b", "c", "d", "e", "f", "g", ",", " ", "h", "i", "j", ",", " ", "k", "l", "m", "n", "o", "p", ",", " ", "q", "r", "s", "." >>

EngineInputs == (EngineTexts \X EngineLengths) \cup {<<ScenarioS2, max_segment_length>>}

InitEngine ==
    /\ ConferenceInit(MaxText)
    /\ \E input \in EngineInputs :
           engine = [NoCall EXCEPT !.text = Tag(input[1], NoId), !.max_length = input[2]]
    /\ single = SingleInit(0, 0)
    /\ NothingElse

\* segments, incomplete, keep_incomplete = segment_by_punctuation(text, ...)
SegmentCall ==
    /\ ~engine.called
    /\ LET r == segment_by_punctuation(engine.text, engine.max_length) IN
           engine' = [engine EXCEPT !.called = TRUE,
                                    !.segments = r.segments,
                                    !.incomplete = r.incomplete]
    /\ UNCHANGED << conference, single, others >>

SpecEngine == InitEngine /\ [][SegmentCall]_vars

\* a text that leaves two segments and a tail: "aaaaaaa.bbbbbbb.a"
Rich == { <<"a", "a", "a", "a", "a", "a", "a", ".",
            "b", "b", "b", "b", "b", "b", "b", ".", "a">> }

\* runs with control events: sessions with and without a question id, each
\* carrying its whole text in the SESSION_START and none of them ended
NextControl ==
    \/ StartEvent(Rich, {NoId, 1}, Later)
    \/ AudioCompleteEvent
    \/ BufferEvent(Fills)
    \/ GlobalReset
    \/ SelectiveResetEvent

SpecControl == Init /\ [][NextControl]_vars

\* runs with control events in which sessions end and nothing is acknowledged
NextResets ==
    \/ StartEvent(Rich, {1}, Later)
    \/ EndEvent
    \/ BufferEvent(Fills)
    \/ GlobalReset
    \/ SelectiveResetEvent

SpecResets == Init /\ [][NextResets]_vars

\* runs of participant text and of acknowledgments, well-formed or not
NextProtocol ==
    \/ StartEvent(Texts, {NoId}, Later)
    \/ ChunkEvent(Texts)
    \/ EndEvent
    \/ AnyAudioCompleteEvent

SpecProtocol == Init /\ [][NextProtocol]_vars

\* runs with every kind of event: sessions of one question, started,
\* continued and ended, acknowledgements, buffer readings, the global reset
\* and the selective reset for another question
NextEvents ==
    \/ StartEvent(Sentences, {1}, Later)
    \/ ChunkEvent({<<"a", ".">>})
    \/ EndEvent
    \/ AudioCompleteEvent
    \/ BufferEvent(Fills)
    \/ GlobalReset
    \/ SelectiveReset(2)

SpecEvents == Init /\ [][NextEvents]_vars

\* runs of two participants with every kind of text event, acknowledgments
\* and selective resets, after which active_queue is None while segments remain
NextIsolation ==
    \/ StartEvent(Rich, {1}, Later)
    \/ ChunkEvent({<<".">>})
    \/ EndEvent
    \/ AudioCompleteEvent
    \/ SelectiveReset(1)

SpecIsolation == Init /\ [][NextIsolation]_vars

\* -------------------------------------------------------------- properties
EmittedTo(participant) == SelectSeq(emitted, LAMBDA e : e.participant = participant)

IsPrefix(a, b) == Len(a) <= Len(b) /\ SubSeq(b, 1, Len(a)) = a

FirstOfSession(i) ==
    \A k \in 1..(i - 1) : emitted[k].session_id # emitted[i].session_id

HasSegments(participant, session_id) ==
    \E i \in DOMAIN enqueued[participant] :
        enqueued[participant][i].session_id = session_id

\* C1: once the first segment of a session has been emitted, no segment of
\* another session is emitted before the segment of that session flagged
\* is_session_end: between two emissions of different sessions lies the
\* is_session_end emission of the earlier one.
C1_SessionAtomicity ==
    \A i, j \in DOMAIN emitted :
        (i < j /\ emitted[i].session_id # emitted[j].session_id)
        => \E k \in i..(j - 1) :
               /\ emitted[k].session_id = emitted[i].session_id
               /\ emitted[k].is_session_end

\* C2: with every emission acknowledged and nothing else pending (no emission
\* in flight, no session still receiving), no session that received its
\* SESSION_END and produced a segment still has a segment queued or its
\* SessionMarker in the session list.
C2_AcknowledgedSessionsComplete ==
    (\A p \in Participants : in_flight[p] = 0 /\ current_session[p] = NoId)
    => \A p \in Participants :
          /\ \A i \in DOMAIN segment_queues[p] :
                 segment_queues[p][i].session_id \notin ended
          /\ \A k \in DOMAIN session_timestamps[p] :
                 ~ (/\ session_timestamps[p][k].session_id \in ended
                    /\ HasSegments(p, session_timestamps[p][k].session_id))

\* C3 (as claimed): the sessions have their first segment emitted in the order
\* of their SESSION_START timestamps: a session whose first segment is emitted
\* before that of another session did not start after it.
C3_FirstEmissionsInStartOrder ==
    \A i, j \in DOMAIN emitted :
        (i < j /\ FirstOfSession(i) /\ FirstOfSession(j))
        => session_start[emitted[i].session_id] <= session_start[emitted[j].session_id]

\* C3 (amended): whenever an election activates a participant, the head
\* SessionMarker of that participant is not younger than the head SessionMarker
\* of any other participant that has both a pending session and a queued
\* segment at that moment (participants without a queued segment are passed
\* over, whatever the age of their session).
C3_ElectionPicksOldestQueued ==
    \A i \in DOMAIN emitted :
        \A rival \in emitted[i].election.rivals :
            emitted[i].election.timestamp <= rival[2]

\* C3 witness: an election had to choose between two participants.
C3_ElectionAmongTwo ==
    \E i \in DOMAIN emitted : emitted[i].election.rivals # {}

\* C4: while the backpressure gate is closed (from a BufferTelemetry above the
\* high watermark to one below the low watermark or a reset, which is when
\* buffer_control_paused is set) no event emits a segment.
C4_NoEmissionWhilePaused ==
    [][(buffer_control_paused /\ buffer_control_paused') => emitted' = emitted]_vars

\* C5: at most one segment is in flight (emitted and not yet followed by an
\* audio_complete for its participant).
C5_AtMostOneInFlight ==
    \A p, q \in Participants :
        /\ in_flight[p] <= 1
        /\ (p # q /\ in_flight[p] > 0) => in_flight[q] = 0

\* C6: a participant whose sending flag is set is the active participant.
C6_SendingIsActive ==
    \A p \in Participants : is_sending[p] => active_queue = p

\* C7: without control events, the texts emitted for a participant are a
\* prefix of the texts enqueued for it, in order.
C7_EmittedIsPrefixOfEnqueued ==
    \A p \in Participants :
        IsPrefix(SegTexts(EmittedTo(p)), SegTexts(enqueued[p]))

\* C7 witness: two segments were emitted for a participant and more are queued.
C7_TwoEmittedMoreQueued ==
    \E p \in Participants : Len(EmittedTo(p)) >= 2 /\ segment_queues[p] # <<>>

\* C8: a SessionMarker is removed only by the acknowledgment of the
\* is_session_end segment of its own session: when the head marker of a
\* participant is popped, the last segment emitted for that participant is
\* flagged is_session_end and carries the popped marker's session id.
C8_MarkerPoppedByItsFinalSegment ==
    [][\A p \in Participants :
          Len(session_timestamps'[p]) < Len(session_timestamps[p])
          => /\ EmittedTo(p) # <<>>
             /\ EmittedTo(p)[Len(EmittedTo(p))].is_session_end
             /\ EmittedTo(p)[Len(EmittedTo(p))].session_id
                    = session_timestamps[p][1].session_id]_vars

\* C9: a session that received SESSION_START and SESSION_END without producing
\* a segment is removed when its turn comes: whenever no participant is active
\* after an event, no session list is headed by such an empty ended session.
C9_EmptySessionRemovedAtItsTurn ==
    active_queue = None
    => \A p \in Participants :
          session_timestamps[p] # <<>>
          => ~ (/\ session_timestamps[p][1].session_id \in ended
                /\ ~HasSegments(p, session_timestamps[p][1].session_id))

\* C10: after a selective reset with correlation id C, no text that arrived
\* before it in a session whose correlation id is present and differs from C
\* is emitted.
C10_NoStaleTextAfterSelectiveReset ==
    \A i \in DOMAIN emitted : ~emitted[i].stale

\* C11: a selective reset with correlation id C leaves, for every participant,
\* exactly the queued segments whose question id is C or absent, in their
\* order; a participant that lost a segment has an empty tail buffer and a
\* cleared sending flag; no participant is active and the gate is open.
C11_SelectiveResetFilters ==
    [][\A C \in QuestionIds :
          SelectiveReset(C)
          => /\ \A p \in Participants :
                    segment_queues'[p] =
                        SelectSeq(segment_queues[p],
                                  LAMBDA g : g.question_id = C \/ g.question_id = NoId)
             /\ \A p \in Participants :
                    Len(segment_queues'[p]) < Len(segment_queues[p])
                    => text_buffers'[p] = <<>> /\ ~is_sending'[p]
             /\ active_queue' = None
             /\ ~buffer_control_paused']_vars

\* C11 witness: a selective reset is about to keep a part and drop a part of
\* the queue of an active, sending participant that has a tail, the gate closed.
C11_MixedQueueBeforeReset ==
    \E C \in QuestionIds, p \in Participants :
        /\ ~crashed
        /\ KeptSegments(segment_queues[p], C) # <<>>
        /\ Len(KeptSegments(segment_queues[p], C)) < Len(segment_queues[p])
        /\ text_buffers[p] # <<>>
        /\ is_sending[p]
        /\ active_queue = p
        /\ buffer_control_paused

\* C12: after a global reset every participant's queue, tail buffer and
\* session list are empty, every sending flag is false, no participant is
\* active, the gate is open and the fill level is 0.
C12_GlobalResetClearsAll ==
    [][GlobalReset
       => /\ \A p \in Participants :
                 /\ segment_queues'[p] = <<>>
                 /\ text_buffers'[p] = <<>>
                 /\ session_timestamps'[p] = <<>>
                 /\ ~is_sending'[p]
          /\ active_queue' = None
          /\ ~buffer_control_paused'
          /\ audio_buffer_level' = 0]_vars

\* C12 witness: a global reset is about to clear a participant that has a
\* queued segment, a tail, a session and a segment in flight, the gate closed.
C12_BusyBeforeGlobalReset ==
    \E p \in Participants :
        /\ ~crashed
        /\ segment_queues[p] # <<>>
        /\ text_buffers[p] # <<>>
        /\ session_timestamps[p] # <<>>
        /\ is_sending[p]
        /\ active_queue = p
        /\ buffer_control_paused
        /\ audio_buffer_level > 0

\* C13: in every reachable state, a second global reset changes nothing of
\* the scheduler state the first one left, and a selective reset followed by
\* a global reset leaves the same scheduler state as the global reset alone.
C13_ResetIdempotence ==
    /\ clear_all(clear_all(Sched)) = clear_all(Sched)
    /\ \A C \in QuestionIds :
           clear_all(smart_reset(Sched, C)) = clear_all(Sched)

\* C13 witness: a state that both resets change, each in its own way, with a
\* last-segment flag set that only the global reset clears.
C13_ResetsDiffer ==
    \E C \in QuestionIds :
        /\ ~crashed
        /\ smart_reset(Sched, C) # Sched
        /\ smart_reset(Sched, C).segment_queues # Sched.segment_queues
        /\ clear_all(Sched) # smart_reset(Sched, C)
        /\ \E p \in Participants : last_session_end_sent[p] /\ is_sending[p]

\* the participant names in ascending order
NamesAscending == <<"pA", "pB">>

NameRank(participant) == CHOOSE i \in DOMAIN NamesAscending : NamesAscending[i] = participant

\* C14: every election activates a participant whose head SessionMarker has
\* the smallest timestamp among the participants with a pending session and a
\* queued segment, and among equal timestamps the one with the smallest name,
\* whatever the order in which the participants were discovered.
C14_ElectionTiesByName ==
    \A i \in DOMAIN emitted :
        \A rival \in emitted[i].election.rivals :
            \/ emitted[i].election.timestamp < rival[2]
            \/ /\ emitted[i].election.timestamp = rival[2]
               /\ NameRank(emitted[i].participant) < NameRank(rival[1])

\* C15: a step in which an election activates a participant emits exactly one
\* segment, the oldest not yet emitted of that participant's queue, leaves the
\* participant active with its sending flag set, and, when the emitted segment
\* is flagged is_session_end, with its last_session_end_sent flag set.
C15_ActivationBookkeeping ==
    [][(emitted' # emitted /\ emitted'[Len(emitted')].election # NoElection) =>
          LET activation == emitted'[Len(emitted')]
              P == activation.participant
              sent == Len(SelectSeq(emitted', LAMBDA e : e.participant = P))
          IN  /\ emitted' = Append(emitted, activation)
              /\ sent <= Len(enqueued'[P])
              /\ enqueued'[P][sent].text = activation.text
              /\ active_queue' = P
              /\ is_sending'[P]
              /\ activation.is_session_end => last_session_end_sent'[P]]_vars

\* the participant's queue as a SESSION_END step left it, before the election of
\* the same step took a segment from it
QueueAtEnd(participant) ==
    LET flags(queue) == [i \in DOMAIN queue |->
                            [text |-> queue[i].text,
                             is_session_end |-> queue[i].is_session_end]]
        taken == IF emitted' # emitted
                    /\ emitted'[Len(emitted')].participant = participant
                    /\ emitted'[Len(emitted')].election # NoElection
                 THEN <<emitted'[Len(emitted')]>> ELSE <<>>
    IN  flags(taken) \o flags(segment_queues'[participant])

\* C16: a SESSION_END for a participant with a current session enqueues a
\* non-empty, non-skippable tail as the final segment flagged is_session_end;
\* otherwise, when the queue is not empty, it leaves the last queued segment
\* flagged is_session_end; in all cases current_session is cleared, the tail is
\* empty and the SessionMarker list is unchanged.
C16_SessionEndFlagsLastSegment ==
    [][\A p \in Participants :
          (SessionEnd(p) /\ current_session[p] # NoId) =>
              LET tail == Strip(text_buffers[p])
                  flushed == text_buffers[p] # <<>> /\ ~should_skip_segment(tail)
                  after == QueueAtEnd(p)
              IN  /\ flushed =>
                        /\ after # <<>>
                        /\ after[Len(after)].text = tail
                        /\ after[Len(after)].is_session_end
                  /\ (~flushed /\ segment_queues[p] # <<>>) =>
                        /\ after # <<>>
                        /\ after[Len(after)].is_session_end
                  /\ current_session'[p] = NoId
                  /\ text_buffers'[p] = <<>>
                  /\ session_timestamps'[p] = session_timestamps[p]]_vars

\* C17: an audio_complete for the active participant P whose
\* last_session_end_sent flag is set removes the head SessionMarker of P,
\* clears last_session_end_sent[P], and runs the election at once: either no
\* participant has a pending session and a queued segment, nothing is emitted,
\* no participant is active and is_sending[P] is clear; or the participant with
\* the oldest such session becomes active and exactly the head of its queue
\* is emitted, a segment of another session than the one whose marker was
\* removed and than any session of P whose final segment was emitted, and
\* is_sending[P] is set only if P itself was elected.
C17_CompletionPopsAndElects ==
    [][\A P \in Participants :
          (AudioComplete(P) /\ last_session_end_sent[P] /\ active_queue = P) =>
              LET completed == Head(session_timestamps[P])
                  sessions == [session_timestamps EXCEPT ![P] = Tail(@)]
                  candidates == {q \in Participants :
                                    sessions[q] # <<>> /\ segment_queues[q] # <<>>}
              IN  /\ session_timestamps[P] # <<>>
                  /\ session_timestamps' = sessions
                  /\ ~last_session_end_sent'[P]
                  /\ is_sending'[P] <=> active_queue' = P
                  /\ IF candidates = {}
                     THEN /\ active_queue' = None
                          /\ emitted' = emitted
                          /\ segment_queues' = segment_queues
                     ELSE /\ active_queue' \in candidates
                          /\ \A q \in candidates :
                                 Head(sessions[active_queue']).timestamp
                                    <= Head(sessions[q]).timestamp
                          /\ Len(emitted') = Len(emitted) + 1
                          /\ SubSeq(emitted', 1, Len(emitted)) = emitted
                          /\ LET new == emitted'[Len(emitted')] IN
                                /\ new.participant = active_queue'
                                /\ new.text = Head(segment_queues[active_queue']).text
                                /\ new.session_id # completed.session_id
                                /\ \A k \in DOMAIN emitted :
                                       (emitted[k].participant = P
                                          /\ emitted[k].is_session_end) =>
                                       new.session_id # emitted[k].session_id
                                /\ segment_queues' = [segment_queues EXCEPT
                                                        ![active_queue'] = Tail(@)]]_vars

\* C17 witness: a participant's only session was completed by its
\* acknowledgment and the election of that step activated the other participant.
C17_CompletedAndOtherElected ==
    \E P \in Participants :
        /\ ~crashed
        /\ session_timestamps[P] = <<>>
        /\ Len(EmittedTo(P)) >= 2
        /\ ~last_session_end_sent[P]
        /\ ~is_sending[P]
        /\ active_queue \in Participants \ {P}
        /\ emitted[Len(emitted)].participant = active_queue
        /\ emitted[Len(emitted)].election # NoElection
        /\ emitted[Len(emitted) - 1].participant = P
        /\ emitted[Len(emitted) - 1].is_session_end

\* C18: an audio_complete for a participant that is not the active one, a
\* participant never seen on any input included, emits nothing, does not stop
\* the event loop, and leaves active_queue, the queues, the SessionMarker
\* lists, the tails and buffer_control_paused unchanged.
C18_StaleAcknowledgmentIgnored ==
    [][\A P \in Participants :
          (AudioComplete(P) /\ active_queue # P) =>
              /\ ~crashed'
              /\ emitted' = emitted
              /\ UNCHANGED << active_queue, segment_queues, session_timestamps,
                              text_buffers, buffer_control_paused >>]_vars

\* C19: an audio_buffer_control below the low water mark that arrives while
\* the gate is closed opens it and emits a segment exactly when a participant
\* is active with a non-empty queue and a clear sending flag (nothing is
\* emitted while its last emission is unacknowledged); an emitted segment
\* flagged is_session_end sets last_session_end_sent.
C19_ResumeKickOnlyWhenIdle ==
    [][\A fill \in Fills :
          (BufferTelemetry(fill) /\ fill < AUDIO_BUFFER_LOW_WATER_MARK
             /\ buffer_control_paused) =>
              LET kick == /\ active_queue # None
                          /\ segment_queues[active_queue] # <<>>
                          /\ ~is_sending[active_queue]
              IN  /\ ~buffer_control_paused'
                  /\ emitted' # emitted <=> kick
                  /\ emitted' # emitted =>
                        /\ emitted' = Append(emitted, emitted'[Len(emitted')])
                        /\ emitted'[Len(emitted')].participant = active_queue
                        /\ emitted'[Len(emitted')].is_session_end =>
                              last_session_end_sent'[active_queue]]_vars

\* C20: an audio_buffer_control event emits at most one segment, and emits
\* one only in the step that opens a closed gate; an audio_buffer_control
\* received while the gate is open emits nothing, whatever the reading.
C20_OneKickPerResume ==
    [][\A fill \in Levels :
          BufferTelemetry(fill) =>
              /\ Len(emitted') <= Len(emitted) + 1
              /\ SubSeq(emitted', 1, Len(emitted)) = emitted
              /\ ~buffer_control_paused => emitted' = emitted
              /\ emitted' # emitted =>
                    buffer_control_paused /\ ~buffer_control_paused']_vars

\* C20 witness: the gate was closed and opened again, the resume emitted a
\* second segment on top of the unacknowledged one, and more is queued for a
\* further low reading to find.
C20_KickedOnceMoreQueued ==
    \E p \in Participants :
        /\ ~crashed
        /\ active_queue = p
        /\ in_flight[p] = 2
        /\ ~buffer_control_paused
        /\ audio_buffer_level < AUDIO_BUFFER_LOW_WATER_MARK
        /\ segment_queues[p] # <<>>

\* C21: an audio_buffer_control event, whether it closes the gate, opens it
\* or does neither, leaves active_queue, the SessionMarker lists, the current
\* sessions and the tails unchanged; while the gate is closed an ordinary
\* audio_complete for the active participant (one that does not complete a
\* session) emits nothing and leaves every queue and active_queue as they were.
C21_TelemetryLeavesElectionAlone ==
    [][/\ \A fill \in Levels :
             BufferTelemetry(fill) =>
                 UNCHANGED << active_queue, session_timestamps,
                              current_session, text_buffers >>
       /\ \A P \in Participants :
             (AudioComplete(P) /\ active_queue = P /\ buffer_control_paused
                /\ ~last_session_end_sent[P]) =>
                 /\ emitted' = emitted
                 /\ UNCHANGED << segment_queues, active_queue >>]_vars

\* C21 witness: the gate is closed, the active participant's last emission has
\* been acknowledged without a new one, and its queue still holds a segment.
C21_PausedActiveQueueIntact ==
    \E p \in Participants :
        /\ ~crashed
        /\ buffer_control_paused
        /\ active_queue = p
        /\ segment_queues[p] # <<>>
        /\ ~is_sending[p]
        /\ in_flight[p] = 0
        /\ EmittedTo(p) # <<>>
        /\ text_buffers[p] # <<>>

\* C22: buffer_control_paused becomes true only in an audio_buffer_control
\* step with a reading above the high water mark, becomes false only in one
\* with a reading below the low water mark or in a reset step, and a reading
\* between the water marks (both included) neither moves the gate nor emits.
C22_GateHysteresis ==
    [][/\ (~buffer_control_paused /\ buffer_control_paused') =>
              \E fill \in Levels : /\ fill > AUDIO_BUFFER_HIGH_WATER_MARK
                                   /\ BufferTelemetry(fill)
       /\ (buffer_control_paused /\ ~buffer_control_paused') =>
              \/ \E fill \in Levels : /\ fill < AUDIO_BUFFER_LOW_WATER_MARK
                                      /\ BufferTelemetry(fill)
              \/ GlobalReset
              \/ SelectiveResetEvent
       /\ \A fill \in Levels :
              (/\ BufferTelemetry(fill)
               /\ AUDIO_BUFFER_LOW_WATER_MARK <= fill
               /\ fill <= AUDIO_BUFFER_HIGH_WATER_MARK) =>
                  /\ buffer_control_paused' = buffer_control_paused
                  /\ emitted' = emitted]_vars

\* C22 witness: the gate is closed, the last reading lies on the low water
\* mark, and the active participant has a segment queued that a resume would emit.
C22_PausedAtLowWaterMark ==
    /\ ~crashed
    /\ buffer_control_paused
    /\ audio_buffer_level = AUDIO_BUFFER_LOW_WATER_MARK
    /\ active_queue # None
    /\ segment_queues[active_queue] # <<>>

\* the characters a skippable segment may consist of besides whitespace and
\* the configured marks
DecimalDigits == {"0", "1", "2", "3", "4", "5", "6", "7", "8", "9"}

Skippable(text) ==
    \/ Strip(text) = <<>>
    \/ \A i \in DOMAIN text :
          IsSpace(text[i]) \/ IsPunct(text[i]) \/ text[i].ch \in DecimalDigits

\* C23: every emitted text is non-empty after stripping and does not consist
\* solely of whitespace, digits and configured marks; a chunk made only of
\* such characters is never emitted.
C23_EmittedNotSkippable ==
    \A i \in DOMAIN emitted : ~Skippable(emitted[i].text)

\* C25: every emitted segment carries a session id allocated by a
\* SESSION_START, the question_id of that session's SessionMarker, and the
\* session_status "ended" exactly when it is the last segment of its session
\* (is_session_end).
C25_EndedStatusOnFinalSegment ==
    \A i \in DOMAIN emitted :
        /\ emitted[i].session_id \in 1..(nextSid - 1)
        /\ \A p \in Participants : \A k \in DOMAIN session_timestamps[p] :
               session_timestamps[p][k].session_id = emitted[i].session_id =>
                   session_timestamps[p][k].question_id = emitted[i].question_id
        /\ emitted[i].session_status = "ended" <=> emitted[i].is_session_end

\* ---- the segmentation engine
\* the runs "non-terminators followed by one terminator" of a text, as
\* <<first, last>> positions: a stretch of non-terminators that starts the text
\* or follows a terminator, and the terminator that closes it
RunSet(text) ==
    {r \in (DOMAIN text) \X (DOMAIN text) :
        /\ r[1] < r[2]
        /\ IsPunct(text[r[2]])
        /\ \A k \in r[1]..(r[2] - 1) : ~IsPunct(text[k])
        /\ r[1] = 1 \/ IsPunct(text[r[1] - 1])}

\* the runs from left to right, each trimmed of whitespace
TrimmedRuns(text) ==
    LET runs == RunSet(text)
        nth(k) == CHOOSE r \in runs : Cardinality({q \in runs : q[1] < r[1]}) = k - 1
    IN  [k \in 1..Cardinality(runs) |-> Strip(SubSeq(text, nth(k)[1], nth(k)[2]))]

RECURSIVE Concat(_)
Concat(texts) == IF texts = <<>> THEN <<>> ELSE Head(texts) \o Concat(Tail(texts))

\* where the last run of a text ends (0 without a run)
LastRunEnd(text) ==
    IF RunSet(text) = {} THEN 0
    ELSE CHOOSE j \in {r[2] : r \in RunSet(text)} : \A r \in RunSet(text) : r[2] <= j

\* C27: the segments segment_by_punctuation returns are, in order, the
\* concatenations of consecutive groups of one or more trimmed runs, all runs
\* used once, so each ends with a terminator; with max_length > 0 a segment
\* longer than max_length is a single run; with max_length <= 0 all runs form
\* one segment; the returned tail is the stripped text after the last run.
C27_SegmentsAreGroupsOfRuns ==
    engine.called =>
        LET runs == TrimmedRuns(engine.text)
            segments == engine.segments
            count == Len(segments)
        IN  /\ \E last \in [1..count -> 1..Len(runs)] :
                  LET first(k) == IF k = 1 THEN 1 ELSE last[k - 1] + 1 IN
                  /\ count = 0 <=> runs = <<>>
                  /\ count > 0 => last[count] = Len(runs)
                  /\ \A k \in 1..count :
                        /\ first(k) <= last[k]
                        /\ segments[k] = Concat(SubSeq(runs, first(k), last[k]))
                        /\ IsPunct(segments[k][Len(segments[k])])
                        /\ (engine.max_length > 0
                              /\ Len(segments[k]) > engine.max_length) =>
                                 first(k) = last[k]
            /\ engine.max_length <= 0 => count <= 1
            /\ engine.incomplete =
                   Strip(SubSeq(engine.text, LastRunEnd(engine.text) + 1,
                                Len(engine.text)))

\* C27 witness: a call with a cap returned two segments, one of them longer
\* than the cap, and a tail.
C27_OverlongRunAndTail ==
    /\ engine.called
    /\ engine.max_length > 0
    /\ Len(engine.segments) >= 2
    /\ \E k \in DOMAIN engine.segments : Len(engine.segments[k]) > engine.max_length
    /\ engine.incomplete # <<>>
    /\ Len(engine.incomplete) < Len(engine.text) - LastRunEnd(engine.text)

\* C28: scenario S2, the text "abcdefg, hij, klmnop, qrs." segmented with
\* max_length 15 and the comma among the terminators, yields exactly the
\* segments "abcdefg,", "hij, klmnop,", "qrs." in that order.
C28_ScenarioS2Segments ==
    (/\ engine.called
     /\ Glyphs(engine.text) = ScenarioS2
     /\ engine.max_length = max_segment_length) =>
        [k \in DOMAIN engine.segments |-> Glyphs(engine.segments[k])] =
            << << "a", "b", "c", "d", "e", "f", "g", "," >>,
               << "h", "i", "j", ",", " ", "k", "l", "m", "n", "o", "p", "," >>,
               << "q", "r", "s", "." >> >>

\* C28 (amended): scenario S2 yields exactly the two segments "abcdefg,hij,"
\* and "klmnop,qrs." in that order, and no tail: the trimmed runs "abcdefg,",
\* "hij,", "klmnop,", "qrs." are joined without blanks for as long as the
\* result stays within max_length 15.
C28_ScenarioS2AsSegmented ==
    (/\ engine.called
     /\ Glyphs(engine.text) = ScenarioS2
     /\ engine.max_length = max_segment_length) =>
        /\ [k \in DOMAIN engine.segments |-> Glyphs(engine.segments[k])] =
              << << "a", "b", "c", "d", "e", "f", "g", ",", "h", "i", "j", "," >>,
                 << "k", "l", "m", "n", "o", "p", ",", "q", "r", "s", "." >> >>
        /\ engine.incomplete = <<>>

\* C28 witness: the engine was called on scenario S2.
C28_ScenarioS2Called ==
    /\ engine.called
    /\ Glyphs(engine.text) = ScenarioS2
    /\ engine.max_length = max_segment_length
    /\ Len(engine.segments) = 2


\* =========================================================================
\* Single-participant mode (node-hub/dora-text-segmenter,
\* queue_based_segmenter.py).  The locals of main() are the fields of the
\* record `single`; every handler maps the record before the event to the
\* record after it.  A queued segment holds, next to its text, the metadata
\* it refers to and the identity of that dict: segments queued from one text
\* event refer to the event's own dict, so that an assignment through one of
\* them is seen through all of them.
\* =========================================================================
queue_remove_speaker_id_enabled == FALSE     \* REMOVE_SPEAKER_ID, default "false"

\* should_skip_segment of queue_based_segmenter.py: '^[\s\d<marks>]+$' on the stripped text
queue_should_skip_segment(text) ==
    \/ Strip(text) = <<>>
    \/ \A i \in DOMAIN text :
          IsSpace(text[i]) \/ IsPunct(text[i]) \/ text[i].ch \in DecimalDigits

\* node.send_output("text_segment", [text], metadata), of a segment of `session`
queue_send_output(q, text, metadata, session) ==
    [q EXCEPT !.out = Append(@, [text           |-> text,
                                 session_status |-> metadata.session_status,
                                 question_id    |-> metadata.question_id,
                                 session        |-> session]),
              !.unacknowledged = @ + 1]

\* segment = segment_queue.popleft(); send_output(...); is_sending = True
send_first_if_idle(q) ==
    IF ~q.is_sending /\ q.segment_queue # <<>>
    THEN LET segment == Head(q.segment_queue) IN
         [queue_send_output(q, segment.text, segment.metadata, segment.session)
            EXCEPT !.segment_queue = Tail(q.segment_queue), !.is_sending = TRUE]
    ELSE q

\* segment_queue[-1]["metadata"]["session_status"] = "ended": the assignment
\* reaches every queued segment that refers to the same dict
mark_last_ended(queue) ==
    IF queue = <<>> THEN queue
    ELSE [i \in DOMAIN queue |->
            IF queue[i].dict = queue[Len(queue)].dict
            THEN [queue[i] EXCEPT !.metadata.session_status = "ended"]
            ELSE queue[i]]

\* the branch `if session_status == "ended":` up to its test of text.strip();
\* fresh is the identity of the dict built for the flushed tail
session_ended(q, metadata, fresh) ==
    LET flushed == IF Strip(q.text_buffer) # <<>>
                   THEN [q EXCEPT !.segment_queue =
                                     Append(@, [text     |-> Strip(q.text_buffer),
                                                metadata |-> [metadata EXCEPT !.session_status = "ended"],
                                                dict     |-> fresh,
                                                session  |-> q.session]),
                                  !.text_buffer = <<>>]
                   ELSE q
        marked == [flushed EXCEPT !.segment_queue = mark_last_ended(@)]
    IN  IF ~marked.is_sending /\ marked.segment_queue # <<>>
        THEN send_first_if_idle(marked)
        ELSE IF marked.is_sending /\ marked.segment_queue = <<>>
        THEN [marked EXCEPT !.pending_session_end = TRUE,
                            !.pending_session_end_metadata = metadata,
                            !.pending_session = q.session]
        ELSE marked

\* the segments of complete_segments that pass the filter, each referring to
\* the event's metadata dict
queue_segments(complete_segments, metadata, dict, session) ==
    LET kept == SelectSeq(complete_segments, LAMBDA s : ~queue_should_skip_segment(s)) IN
    [i \in DOMAIN kept |-> [text |-> kept[i], metadata |-> metadata,
                            dict |-> dict, session |-> session]]

\* the text branch from the removal of the speaker id to the first send
process_text(q, text, metadata, dict) ==
    LET spoken == IF queue_remove_speaker_id_enabled THEN remove_speaker_id(text) ELSE text
        combined_text == q.text_buffer \o spoken
        r == segment_by_punctuation(combined_text, q.max_segment_length)
        buffered == IF r.incomplete # <<>> /\ queue_should_skip_segment(r.incomplete)
                    THEN <<>> ELSE r.incomplete
    IN  send_first_if_idle(
          [q EXCEPT !.current_question_id =
                        IF metadata.question_id # NoId THEN metadata.question_id ELSE @,
                    !.text_buffer = buffered,
                    !.segment_queue =
                        @ \o queue_segments(r.segments, metadata, dict, q.session)])

\* event["id"] == "text"
TextEvent(glyphs, session_status, question_id) ==
    /\ single.text_budget > 0
    /\ LET text == Tag(glyphs, single.session)
           metadata == [session_status |-> session_status, question_id |-> question_id]
           dict == 2 * single.text_budget
           handled == IF session_status = "ended"
                      THEN LET q == session_ended(single, metadata, dict + 1) IN
                           IF Strip(text) = <<>> THEN q
                           ELSE process_text(q, text, metadata, dict)
                      ELSE process_text(single, text, metadata, dict)
       IN  single' = [handled EXCEPT
                        !.text_budget = @ - 1,
                        !.heard = Append(@, [text |-> glyphs, session_status |-> session_status]),
                        !.session = IF session_status = "ended" THEN @ + 1 ELSE @]
    /\ UNCHANGED << conference, engine, others >>

\* event["id"] == "tts_complete"
tts_complete(q) ==
    LET heard_of == [q EXCEPT !.unacknowledged = IF @ > 0 THEN @ - 1 ELSE 0] IN
    IF q.segment_queue # <<>>
    THEN LET segment == Head(q.segment_queue) IN
         [queue_send_output(heard_of, segment.text, segment.metadata, segment.session)
            EXCEPT !.segment_queue = Tail(q.segment_queue)]
    ELSE IF q.pending_session_end
    THEN [queue_send_output(heard_of, <<>>,
                            [q.pending_session_end_metadata EXCEPT !.session_status = "ended"],
                            q.pending_session)
            EXCEPT !.is_sending = FALSE,
                   !.pending_session_end = FALSE,
                   !.pending_session_end_metadata = NoMetadata]
    ELSE [heard_of EXCEPT !.is_sending = FALSE]

TtsComplete ==
    /\ single' = tts_complete(single)
    /\ UNCHANGED << conference, engine, others >>

\* segment_queue.clear(); text_buffer = ""; is_sending = False; pending cleared
queue_clear_all(q) ==
    [q EXCEPT !.segment_queue = <<>>,
              !.text_buffer = <<>>,
              !.is_sending = FALSE,
              !.pending_session_end = FALSE,
              !.pending_session_end_metadata = NoMetadata]

\* event["id"] == "control": only the command "reset" acts
ControlEvent(command) ==
    /\ single' = IF command = "reset" THEN queue_clear_all(single) ELSE single
    /\ UNCHANGED << conference, engine, others >>

\* the smart reset: segments of other questions go, the tail and the pending
\* end go when the question changes
queue_smart_reset(q, incoming_question_id) ==
    LET new_queue == SelectSeq(q.segment_queue,
                               LAMBDA segment :
                                   \/ segment.metadata.question_id = incoming_question_id
                                   \/ segment.metadata.question_id = NoId)
        changed == q.current_question_id # incoming_question_id
    IN  [q EXCEPT !.segment_queue = new_queue,
                  !.text_buffer = IF changed THEN <<>> ELSE @,
                  !.pending_session_end = IF changed THEN FALSE ELSE @,
                  !.pending_session_end_metadata = IF changed THEN NoMetadata ELSE @,
                  !.current_question_id = incoming_question_id,
                  !.is_sending = IF new_queue = <<>> THEN FALSE ELSE @]

\* event["id"] == "reset"
ResetEvent(command, incoming_question_id) ==
    /\ single' = IF command = "resume" THEN [single EXCEPT !.resumed = TRUE]
                 ELSE IF incoming_question_id = NoId THEN queue_clear_all(single)
                 ELSE queue_smart_reset(single, incoming_question_id)
    /\ UNCHANGED << conference, engine, others >>

\* the status of a text event: "ended" closes the session, any other value
\* takes the ordinary path
Statuses == {"started", "ended"}

\* scenario S1: START "Hello there. This is ", CHUNK "a test! Final bit", END ""
S1Start == << "H", "e", "l", "l", "o", " ", "t", "h", "e", "r", "e", ".", " ", "T", "h", "i", "s", " ", "i", "s", " " >>
S1Chunk == << "a", " ", "t", "e", "s", "t", "!", " ", "F", "i", "n", "a", "l", " ", "b", "i", "t" >>

\* MAX_SEGMENT_LENGTH of the single-participant segmenter: its default, and the
\* conference default, under which "aaaaaaa.bbbbbbb." is cut in two
queue_max_segment_length == 100
SingleLengths == {queue_max_segment_length, max_segment_length}

InitSingle ==
    /\ ConferenceInit(MaxText)
    /\ engine = NoCall
    /\ \E max_length \in SingleLengths : single = SingleInit(max_length, MaxText + 1)
    /\ NothingElse

TextEvents(texts, question_ids) ==
    \E glyphs \in texts, session_status \in Statuses, question_id \in question_ids :
        TextEvent(glyphs, session_status, question_id)

ControlEvents == \E command \in {"reset", "pause"} : ControlEvent(command)

ResetEvents ==
    \E command \in {"reset", "resume"}, incoming_question_id \in {NoId} \cup QuestionIds :
        ResetEvent(command, incoming_question_id)

\* every input of the single-participant segmenter, in any order
NextSingle ==
    \/ TextEvents(Texts \cup Numbered, {NoId, 1})
    \/ TtsComplete
    \/ ControlEvents
    \/ ResetEvents

SpecSingle == InitSingle /\ [][NextSingle]_vars

\* runs without resets in which a tts_complete follows an emission and nothing else
TtsAcknowledge == single.unacknowledged > 0 /\ TtsComplete

SingleTexts == Texts \cup {S1Start, S1Chunk}

NextSingleAcknowledged ==
    \/ TextEvents(SingleTexts, {NoId})
    \/ TtsAcknowledge

SpecSingleAcknowledged == InitSingle /\ [][NextSingleAcknowledged]_vars

\* C24: in single-participant mode every text emitted on text_segment is
\* non-empty and not skippable, whatever the sequence of text, tts_complete,
\* control and reset events; an end of session that arrives while a segment is
\* being spoken and the queue is empty leads to no emission of the empty text.
C24_SingleEmittedNotSkippable ==
    \A i \in DOMAIN single.out :
        single.out[i].text # <<>> /\ ~Skippable(single.out[i].text)

\* nothing is being spoken and nothing waits: every emission was followed by
\* its tts_complete
SingleQuiet ==
    /\ single.unacknowledged = 0
    /\ single.segment_queue = <<>>

\* the emissions that belong to a session, and those of them that carry "ended"
OutOf(session) == {i \in DOMAIN single.out : single.out[i].session = session}
EndedOutOf(session) == {i \in OutOf(session) : single.out[i].session_status = "ended"}

\* C26: in single-participant mode, with a tts_complete after each emission and
\* no reset, every text event with session_status "ended" is answered by
\* exactly one emission that carries "ended"; it is the last emission of its
\* session and no other segment of the session carries "ended".  This holds
\* also when the end arrives while nothing is queued, buffered or spoken.
C26_OneEndedEmissionPerSession ==
    SingleQuiet =>
        \A session \in 1..(single.session - 1) :
            /\ Cardinality(EndedOutOf(session)) = 1
            /\ \A i \in OutOf(session), j \in EndedOutOf(session) : i <= j

\* scenario S1 has been heard in full, with the default MAX_SEGMENT_LENGTH, and
\* every emission has been acknowledged
ScenarioS1Heard ==
    /\ single.max_segment_length = queue_max_segment_length
    /\ single.heard = << [text |-> S1Start, session_status |-> "started"],
                         [text |-> S1Chunk, session_status |-> "started"],
                         [text |-> << >>,   session_status |-> "ended"] >>
    /\ SingleQuiet

\* C29: scenario S1 in single-participant mode -- START "Hello there. This is ",
\* CHUNK "a test! Final bit", END "", a tts_complete after each emission --
\* emits exactly "Hello there.", "This is a test!", "Final bit" in that order,
\* the last one (and only it) with session_status "ended": the blank at the
\* chunk boundary survives the joining of the residual tail with the next chunk.
C29_ScenarioS1Emissions ==
    ScenarioS1Heard =>
        /\ [i \in DOMAIN single.out |-> Glyphs(single.out[i].text)] =
               << << "H", "e", "l", "l", "o", " ", "t", "h", "e", "r", "e", "." >>,
                  << "T", "h", "i", "s", " ", "i", "s", " ", "a", " ", "t", "e", "s", "t", "!" >>,
                  << "F", "i", "n", "a", "l", " ", "b", "i", "t" >> >>
        /\ \A i \in DOMAIN single.out :
               (single.out[i].session_status = "ended") <=> (i = Len(single.out))

\* the characters of a text that no filter may drop: everything but whitespace,
\* digits and the configured marks
Letters(glyphs) ==
    SelectSeq(glyphs, LAMBDA g : g \notin ({" "} \cup DecimalDigits \cup punctuation_marks))

\* one session has been heard up to its end -- the last text event, and only
\* it, has session_status "ended" -- and every emission has been acknowledged
OneSessionHeard ==
    /\ single.heard # <<>>
    /\ \A i \in DOMAIN single.heard :
           (single.heard[i].session_status = "ended") <=> (i = Len(single.heard))
    /\ SingleQuiet

\* C30: for a single participant, after any sequence of chunks ending in
\* SESSION_END, with an acknowledgment after each emission and no reset, the
\* emitted texts concatenated in order equal the input texts concatenated, up
\* to whitespace and to the fragments dropped as skippable: no character other
\* than whitespace, digits and marks is lost or duplicated.
C30_TailConservation ==
    OneSessionHeard =>
        Letters(Concat([i \in DOMAIN single.out |-> Glyphs(single.out[i].text)]))
          = Letters(Concat([i \in DOMAIN single.heard |-> single.heard[i].text]))

\* -------------------------------------------- the engine's edge cases
NoTerminator(text) == \A i \in DOMAIN text : ~IsPunct(text[i])

\* C31: the combined text handed to the engine is the stored tail followed by
\* the new text.  With an empty new text and a stored tail (stripped, holding
\* no terminator) the engine returns no segments and the tail as it was --
\* the empty tail included; a combined text without terminator returns no
\* segments and the whitespace-stripped combined text as the tail.
C31_EngineEdgeCases ==
    (engine.called /\ NoTerminator(engine.text)) =>
        /\ engine.segments = <<>>
        /\ engine.incomplete = Strip(engine.text)
        /\ (engine.text = Strip(engine.text) => engine.incomplete = engine.text)

\* C31 witness: a call on a text without terminator whose blanks had to be
\* stripped, and of which something remains.
C31_UnterminatedTextSegmented ==
    /\ engine.called
    /\ NoTerminator(engine.text)
    /\ engine.text # Strip(engine.text)
    /\ engine.incomplete # <<>>

\* ---------------------------------------------------- protocol errors
\* what a dropped event leaves alone
scheduling == << segment_queues, text_buffers, session_timestamps, current_session,
                 active_queue, is_sending, last_session_end_sent,
                 buffer_control_paused, emitted >>

\* C32: a chunk or an end for a participant that has no current session, and an
\* audio_complete without a participant in its metadata, emit nothing and leave
\* the queues, tails, session lists, current sessions, the active participant,
\* the sending flags and the pause gate as they were.
C32_ProtocolErrorsDropped ==
    [][ ( \/ \E participant \in Participants :
                /\ current_session[participant] = NoId
                /\ \/ \E glyphs \in Texts : SessionChunk(participant, glyphs)
                   \/ SessionEnd(participant)
          \/ AudioComplete(None) )
        => UNCHANGED scheduling ]_vars

\* C32 witness: a participant is known although no session was ever opened for
\* it -- its record was created by a dropped chunk or end -- while the only
\* session so far, of another participant, is being spoken.
C32_KnownWithoutSession ==
    \E participant, other \in Participants :
        /\ participant \in Range(participant_names)
        /\ session_timestamps[participant] = <<>>
        /\ enqueued[participant] = <<>>
        /\ is_sending[other]
        /\ nextSid = 2
        /\ ~crashed

\* =========================================================================
\* The dispatch of the conference loop on the port name of an event.  Port
\* names are sequences of characters, so that a test on their beginning is a
\* test on a prefix.
\* =========================================================================
port_control              == << "c", "o", "n", "t", "r", "o", "l" >>
port_reset                == << "r", "e", "s", "e", "t" >>
port_audio_buffer_control == << "a", "u", "d", "i", "o", "_", "b", "u", "f", "f", "e", "r", "_", "c", "o", "n", "t", "r", "o", "l" >>
port_audio_complete       == << "a", "u", "d", "i", "o", "_", "c", "o", "m", "p", "l", "e", "t", "e" >>
tts_complete_prefix       == << "t", "t", "s", "_", "c", "o", "m", "p", "l", "e", "t", "e", "_" >>

CONTROL_PORTS        == {port_control, port_reset}
BUFFER_CONTROL_PORTS == {port_audio_buffer_control}
COMPLETION_PORTS     == {port_audio_complete}

\* event_id.startswith(prefix)
startswith(event_id, prefix) ==
    Len(prefix) <= Len(event_id) /\ SubSeq(event_id, 1, Len(prefix)) = prefix

is_participant_port(event_id) ==
    IF event_id \in CONTROL_PORTS \cup BUFFER_CONTROL_PORTS \cup COMPLETION_PORTS
    THEN FALSE
    ELSE IF startswith(event_id, tts_complete_prefix) THEN FALSE
    ELSE TRUE

\* the if / elif chain of the event loop: the branch that handles an event
dispatch(event_id) ==
    IF is_participant_port(event_id) THEN "participant"
    ELSE IF event_id = port_audio_complete THEN "audio_complete"
    ELSE IF event_id = port_audio_buffer_control THEN "audio_buffer_control"
    ELSE IF event_id \in {port_control, port_reset} THEN "control"
    ELSE "none"

\* the port names of a dataflow: the reserved ones, participants, and names
\* that begin like a reserved one
PortNames ==
    CONTROL_PORTS \cup BUFFER_CONTROL_PORTS \cup COMPLETION_PORTS \cup
    { << "p", "A" >>, << "p", "B" >>, << "t", "t", "s" >>,
      tts_complete_prefix,
      << "t", "t", "s", "_", "c", "o", "m", "p", "l", "e", "t", "e", "_", "p", "A" >>,
      << "a", "u", "d", "i", "o", "_", "c", "o", "m", "p", "l", "e", "t", "e", "_", "p", "A" >> }

\* for event in node: event_id = event["id"], and the branch taken
Receive(event_id) ==
    /\ Len(ingress) < MaxText
    /\ ingress' = Append(ingress,
                     [event_id    |-> event_id,
                      handler     |-> dispatch(event_id),
                      participant |-> IF is_participant_port(event_id)
                                      THEN event_id ELSE << >>])
    /\ UNCHANGED << conference, engine, single, startup, anchors >>

NextIngress == \E event_id \in PortNames : Receive(event_id)

SpecIngress == Init /\ [][NextIngress]_vars

\* the reserved port names of the interface
ReservedPorts ==
    {port_control, port_reset, port_audio_buffer_control, port_audio_complete}

\* C33: an event is handled as control, acknowledgment or telemetry exactly
\* when its port name is control, reset, audio_buffer_control or
\* audio_complete; an event on any other port is handled as the text of the
\* participant named like the port.
C33_IngressClassification ==
    \A i \in DOMAIN ingress :
        /\ (ingress[i].handler \in {"control", "audio_complete", "audio_buffer_control"})
               <=> (ingress[i].event_id \in ReservedPorts)
        /\ ingress[i].event_id \notin ReservedPorts
               => /\ ingress[i].handler = "participant"
                  /\ ingress[i].participant = ingress[i].event_id

\* =========================================================================
\* Commands of the conference loop on its control and reset ports
\* =========================================================================
\* every command is taken for a reset
clears_anything(command) == TRUE

\* command in ["reset", "cancel"]
clears(command) == command \in {"reset", "cancel"}

\* event_id in ["control", "reset"]: a command with the question_id of its
\* metadata; a command that is no reset is passed over, which the history
\* `ingress` records
ControlCommand(command, incoming_question_id) ==
    IF clears(command)
    THEN IF incoming_question_id = NoId
         THEN GlobalReset
         ELSE SelectiveReset(incoming_question_id)
    ELSE /\ ~crashed
         /\ Len(ingress) < MaxText
         /\ ingress' = Append(ingress, [event_id    |-> port_reset,
                                        handler     |-> dispatch(port_reset),
                                        participant |-> << >>])
         /\ UNCHANGED << conference, engine, single, startup, anchors >>

ControlCommands ==
    \E command \in {"reset", "cancel", "resume"},
       incoming_question_id \in {NoId} \cup QuestionIds :
        ControlCommand(command, incoming_question_id)

\* both segmenters, each on a short run of its own with commands on its reset
\* port; the single-participant one hears one text event
NextResume ==
    \/ StartEvent(Rich, {1}, Later)
    \/ ControlCommands
    \/ TextEvents(Rich, {NoId, 1})
    \/ TtsComplete
    \/ ResetEvents

InitResume ==
    /\ ConferenceInit(MaxText - 1)
    /\ engine = NoCall
    /\ single = SingleInit(max_segment_length, 1)
    /\ NothingElse

SpecResume == InitResume /\ [][NextResume]_vars

\* C34: the command "resume" on the reset port is ignored in both modes.  In
\* single mode it leaves the queue, the tail, the sending flag, the pending end
\* and the current question id as they were and emits nothing; in conference
\* mode it leaves the queues, the tails, the sending flags, the active
\* participant and the pause gate as they were and emits nothing.
C34_ResumeIgnored ==
    [][ /\ (\E incoming_question_id \in {NoId} \cup QuestionIds :
                ResetEvent("resume", incoming_question_id))
            => /\ single'.segment_queue = single.segment_queue
               /\ single'.text_buffer = single.text_buffer
               /\ single'.is_sending = single.is_sending
               /\ single'.pending_session_end = single.pending_session_end
               /\ single'.pending_session_end_metadata = single.pending_session_end_metadata
               /\ single'.current_question_id = single.current_question_id
               /\ single'.out = single.out
        /\ (\E incoming_question_id \in {NoId} \cup QuestionIds :
                ControlCommand("resume", incoming_question_id))
            => UNCHANGED << segment_queues, text_buffers, session_timestamps,
                            current_session, is_sending, last_session_end_sent,
                            active_queue, buffer_control_paused, emitted >>
      ]_vars

\* C34 witness: both segmenters have passed over a "resume" and still hold a
\* queued segment, a tail and a segment being spoken.
C34_ResumedWhileBusy ==
    /\ single.resumed
    /\ single.segment_queue # <<>> /\ single.text_buffer # <<>> /\ single.is_sending
    /\ ingress # <<>>
    /\ \E participant \in Participants :
           /\ segment_queues[participant] # <<>>
           /\ text_buffers[participant] # <<>>
           /\ is_sending[participant]

\* =========================================================================
\* Startup (dora_text_segmenter/main.py and the configuration block of the
\* segmenter it calls).  The value of an environment variable is unset, a
\* decimal number, or a text that int() rejects.
\* =========================================================================
Number(n) == [kind |-> "number", number |-> n]
Garbage   == [kind |-> "garbage", number |-> 0]

\* parse_int_env(name, default): the default when unset or when int() raises
parse_int_env(value, default) ==
    IF value.kind = "number" THEN value.number ELSE default

\* mode = os.getenv("SEGMENTER_MODE", "single"), then the if / elif chain of main()
segmenter_main(env) ==
    LET mode == IF env.SEGMENTER_MODE = NotSet THEN "single" ELSE env.SEGMENTER_MODE IN
    IF mode = "single" THEN "single"
    ELSE IF mode = "conference" THEN "conference"
    ELSE IF mode = "passthrough" THEN "passthrough"
    ELSE IF mode = "sequential" THEN "sequential"
    ELSE "single"

\* the configuration block of the conference main(): int(os.getenv(name, default))
\* raises ValueError on a text that is no number, nothing else is checked
conference_configuration(env) ==
    [ raised |-> \/ env.AUDIO_BUFFER_LOW_WATER_MARK.kind = "garbage"
                 \/ env.AUDIO_BUFFER_HIGH_WATER_MARK.kind = "garbage",
      config |-> [ max_segment_length |->
                       parse_int_env(env.MAX_SEGMENT_LENGTH, max_segment_length),
                   low  |-> parse_int_env(env.AUDIO_BUFFER_LOW_WATER_MARK,
                                          AUDIO_BUFFER_LOW_WATER_MARK),
                   high |-> parse_int_env(env.AUDIO_BUFFER_HIGH_WATER_MARK,
                                          AUDIO_BUFFER_HIGH_WATER_MARK) ] ]

\* the configuration block of the single-participant main(): parse_int_env only
single_configuration(env) ==
    [ raised |-> FALSE,
      config |-> [ max_segment_length |->
                       parse_int_env(env.MAX_SEGMENT_LENGTH, queue_max_segment_length),
                   low |-> 0, high |-> 0 ] ]

\* main(): choose the segmenter and run it up to its event loop
Launch ==
    /\ ~startup.launched
    /\ LET chosen == segmenter_main(startup.env)
           configured == IF chosen = "conference" THEN conference_configuration(startup.env)
                         ELSE IF chosen = "single" THEN single_configuration(startup.env)
                         ELSE [raised |-> FALSE, config |-> startup.config]
       IN  startup' = [startup EXCEPT !.launched = TRUE,
                                      !.segmenter = chosen,
                                      !.raised = configured.raised,
                                      !.config = configured.config]
    /\ UNCHANGED << conference, engine, single, ingress, anchors >>

Modes == {NotSet, "single", "conference", "passthrough", "sequential", "turbo"}
Settings == {NoValue, Garbage, Number(AUDIO_BUFFER_LOW_WATER_MARK),
             Number(AUDIO_BUFFER_HIGH_WATER_MARK)}

InitStartup ==
    /\ ConferenceInit(MaxText)
    /\ engine = NoCall
    /\ single = SingleInit(0, 0)
    /\ ingress = <<>>
    /\ anchors = NoAssignment
    /\ \E mode \in Modes, length \in {NoValue, Garbage, Number(max_segment_length)},
          low \in Settings, high \in Settings :
           startup = [NoStartup EXCEPT !.env =
                         [SEGMENTER_MODE               |-> mode,
                          MAX_SEGMENT_LENGTH           |-> length,
                          AUDIO_BUFFER_LOW_WATER_MARK  |-> low,
                          AUDIO_BUFFER_HIGH_WATER_MARK |-> high]]

SpecStartup == InitStartup /\ [][Launch]_vars

\* the misconfigurations of the interface: an unknown mode, a numeric setting
\* that is no number, water marks given in the wrong order
KnownModes == {"single", "conference", "passthrough", "sequential"}

Misconfigured(env) ==
    \/ env.SEGMENTER_MODE \notin KnownModes \cup {NotSet}
    \/ \E value \in {env.MAX_SEGMENT_LENGTH, env.AUDIO_BUFFER_LOW_WATER_MARK,
                     env.AUDIO_BUFFER_HIGH_WATER_MARK} : value.kind = "garbage"
    \/ /\ env.AUDIO_BUFFER_LOW_WATER_MARK.kind = "number"
       /\ env.AUDIO_BUFFER_HIGH_WATER_MARK.kind = "number"
       /\ env.AUDIO_BUFFER_LOW_WATER_MARK.number >= env.AUDIO_BUFFER_HIGH_WATER_MARK.number

\* C35: with inverted water marks, an unknown SEGMENTER_MODE or an unparseable
\* numeric setting the node terminates with an error at startup: it never
\* reaches the event loop of a segmenter.
C35_MisconfigurationFatal ==
    (startup.launched /\ Misconfigured(startup.env)) => startup.raised

\* ------------------------------------------------ participant isolation
\* a participant-text event on the port of a participant
TextEventOn(participant) ==
    \/ \E glyphs \in Rich, timestamp \in Later :
           SessionStart(participant, glyphs, 1, timestamp)
    \/ SessionChunk(participant, <<".">>)
    \/ SessionEnd(participant)

\* C36: a participant-text event on port P changes neither the tail, nor the
\* session list, nor the current session, nor the queued segments of another
\* participant Q; at most, when no participant was active, the election it
\* runs emits the head of Q's queue.
C36_ParticipantIsolation ==
    [][ \A P, Q \in Participants :
          (P # Q /\ TextEventOn(P)) =>
            /\ text_buffers'[Q] = text_buffers[Q]
            /\ session_timestamps'[Q] = session_timestamps[Q]
            /\ current_session'[Q] = current_session[Q]
            /\ \/ /\ segment_queues'[Q] = segment_queues[Q]
                  /\ \A i \in DOMAIN emitted' :
                         i > Len(emitted) => emitted'[i].participant # Q
               \/ /\ active_queue = None
                  /\ segment_queues[Q] # <<>>
                  /\ segment_queues'[Q] = Tail(segment_queues[Q])
                  /\ Len(emitted') = Len(emitted) + 1
                  /\ SubSeq(emitted', 1, Len(emitted)) = emitted
                  /\ emitted'[Len(emitted')].participant = Q
                  /\ emitted'[Len(emitted')].text = Head(segment_queues[Q]).text
      ]_vars

\* C36 witness: of the two sessions started so far the older one, of Q, was
\* elected when P already had a segment queued -- by the election that the
\* SESSION_START of P ran -- and Q still holds its tail.
C36_ElectedByTheOther ==
    \E P, Q \in Participants :
        /\ P # Q
        /\ nextSid = 3
        /\ Len(emitted) = 1
        /\ emitted[1].participant = Q
        /\ \E rival \in emitted[1].election.rivals : rival[1] = P
        /\ text_buffers[Q] # <<>>

\* ------------------------------------------------------ the anchor assigner
\* Python's False as the value of an "error" key; True is "True"
PyFalse == "False"

\* bool(value) of what dict.get returned; a missing key gives None
truthy(value) == value \notin {Absent, PyFalse, ""}

\* dict.get(key, default) on a value that may be missing
get(value, default) == IF value = Absent THEN default ELSE value

\* os.getenv(name, default)
getenv(value, default) == IF value = NotSet THEN default ELSE value

\* the names and roles are Chinese strings in the source, written here in Latin letters
DEFAULT_ANCHORS ==
    [male   |-> [id |-> "male_anchor", name |-> "Zhang Ming", gender |-> "male", role |-> "male anchor"],
     female |-> [id |-> "female_anchor", name |-> "Li Hua", gender |-> "female", role |-> "female anchor"]]

get_anchors(environ) ==
    [male   |-> [id     |-> "male_anchor",
                 name   |-> getenv(environ.MALE_ANCHOR_NAME, DEFAULT_ANCHORS.male.name),
                 gender |-> "male",
                 role   |-> "male anchor"],
     female |-> [id     |-> "female_anchor",
                 name   |-> getenv(environ.FEMALE_ANCHOR_NAME, DEFAULT_ANCHORS.female.name),
                 gender |-> "female",
                 role   |-> "female anchor"]]

create_error_response(error_type, message) ==
    [returned |-> "error_response", error |-> "True", error_type |-> error_type,
     message |-> message]

\* the longest list of scripts one call is given
MaxScripts == 3

\* f"script_{i}"
script_number(i) == << "script_0", "script_1", "script_2", "script_3", "script_4" >>[i + 1]

\* anchor_order = ["female", "male"], reversed
anchor_order_male_first == << "male", "female" >>

anchor_order == << "female", "male" >>

assign_anchors_to_scripts(scripts_data, environ, utcnow) ==
    IF truthy(scripts_data.error)
    THEN [returned |-> "scripts_data", error |-> scripts_data.error, data |-> scripts_data]
    ELSE LET scripts == IF scripts_data.scripts_given THEN scripts_data.scripts ELSE <<>> IN
         IF scripts = <<>>
         THEN create_error_response("empty_scripts", "No scripts found in input data")
         ELSE LET the_anchors == get_anchors(environ)
                  assigned_pairs ==
                      [k \in DOMAIN scripts |->
                          LET i == k - 1
                              anchor_key == anchor_order[(i % 2) + 1]
                          IN  [script    |-> get(scripts[k].script, ""),
                               script_id |-> get(scripts[k].id, script_number(i)),
                               title     |-> get(scripts[k].title, ""),
                               anchor    |-> the_anchors[anchor_key],
                               position  |-> i + 1]]
              IN  [returned    |-> "assignment",
                   error       |-> PyFalse,
                   feed_title  |-> get(scripts_data.feed_title, ""),
                   feed_url    |-> get(scripts_data.feed_url, ""),
                   pairs       |-> assigned_pairs,
                   pair_count  |-> Len(assigned_pairs),
                   anchors     |-> the_anchors,
                   assigned_at |-> utcnow]

Assign ==
    /\ ~anchors.called
    /\ \E utcnow \in {1, 2} :       \* datetime.utcnow(): some reading of the clock
           anchors' = [anchors EXCEPT
                          !.called = TRUE,
                          !.result = assign_anchors_to_scripts(anchors.scripts_data,
                                                               anchors.environ, utcnow)]
    /\ UNCHANGED << conference, engine, single, ingress, startup >>

\* the scripts a feed may hold: with and without each of their keys
Scripts ==
    { [script |-> "s1", id |-> "id1", title |-> "t1"],
      [script |-> "s2", id |-> Absent, title |-> "t2"],
      [script |-> Absent, id |-> "id3", title |-> Absent],
      [script |-> "s1", id |-> Absent, title |-> Absent] }

InitAnchors ==
    /\ ConferenceInit(MaxText)
    /\ engine = NoCall
    /\ single = SingleInit(0, 0)
    /\ ingress = <<>>
    /\ startup = NoStartup
    /\ \E error \in {Absent, PyFalse, "True", "fetch failed"},
          scripts_given \in BOOLEAN, scripts \in UNION { [1..n -> Scripts] : n \in 0..MaxScripts },
          feed \in {Absent, "feed"}, name \in {NotSet, "Ana"} :
           /\ scripts_given \/ scripts = <<>>
           /\ anchors = [NoAssignment EXCEPT
                            !.environ = [MALE_ANCHOR_NAME |-> NotSet,
                                         FEMALE_ANCHOR_NAME |-> name],
                            !.scripts_data = [error |-> error,
                                              scripts_given |-> scripts_given,
                                              scripts |-> scripts,
                                              feed_title |-> feed,
                                              feed_url |-> Absent]]

SpecAnchors == InitAnchors /\ [][Assign]_vars

\* C37: on an input without error and with n >= 1 scripts the function returns
\* error = False, pair_count = n and n pairs in the order of the scripts; the
\* pair at 0-based index i has position i + 1, the female anchor when i is
\* even and the male anchor when i is odd.
C37_AlternatingAssignment ==
    LET data == anchors.scripts_data
        result == anchors.result
        n == Len(data.scripts)
    IN  (anchors.called /\ ~truthy(data.error) /\ data.scripts_given /\ n >= 1) =>
            /\ result.returned = "assignment"
            /\ result.error = PyFalse
            /\ result.pair_count = n
            /\ Len(result.pairs) = n
            /\ \A i \in 0..(n - 1) :
                   /\ result.pairs[i + 1].script = get(data.scripts[i + 1].script, "")
                   /\ result.pairs[i + 1].title = get(data.scripts[i + 1].title, "")
                   /\ result.pairs[i + 1].position = i + 1
                   /\ result.pairs[i + 1].anchor.gender =
                          (IF i % 2 = 0 THEN "female" ELSE "male")
                   /\ result.pairs[i + 1].anchor =
                          (IF i % 2 = 0 THEN result.anchors.female ELSE result.anchors.male)

\* C37 witness: three scripts without error were assigned; the second went to
\* the male anchor, the third to the female anchor.
C37_ThreeScriptsAssigned ==
    /\ anchors.called
    /\ anchors.scripts_data.error = PyFalse
    /\ Len(anchors.scripts_data.scripts) = 3
    /\ anchors.result.returned = "assignment"
    /\ anchors.result.pairs[2].anchor.id = "male_anchor"
    /\ anchors.result.pairs[3].anchor.id = "female_anchor"

\* ------------------------------------------- invariants of conference mode
\* C38: whenever a participant is active, its session list is not empty.
C38_ActiveHasSession ==
    active_queue # None => session_timestamps[active_queue] # <<>>

\* the emissions of one participant, in order
EmissionsOf(participant) == SelectSeq(emitted, LAMBDA e : e.participant = participant)

\* C39: last_session_end_sent of a participant is set only while that
\* participant is active, its latest emitted segment was a session end and
\* that segment is not yet acknowledged.
C39_EndFlagOnlyWhileEnding ==
    \A participant \in Participants :
        last_session_end_sent[participant] =>
            /\ active_queue = participant
            /\ EmissionsOf(participant) # <<>>
            /\ EmissionsOf(participant)[Len(EmissionsOf(participant))].is_session_end
            /\ in_flight[participant] > 0

\* the session ids of the markers a participant holds
MarkersOf(participant) ==
    {session_timestamps[participant][i].session_id : i \in DOMAIN session_timestamps[participant]}

\* C40: every queued segment carries the session id of a marker that is in
\* the session list of its participant.
C40_QueuedSegmentsHaveMarker ==
    \A participant \in Participants :
        \A i \in DOMAIN segment_queues[participant] :
            segment_queues[participant][i].session_id \in MarkersOf(participant)

\* C38 witness: a participant is active again after a selective reset had set
\* active_queue to None and purged a session, while the buffer gate is closed.
C38_ActiveAfterReset ==
    /\ active_queue # None
    /\ purged # {}
    /\ buffer_control_paused
    /\ nextSid = 3

\* C40 witness: a participant ran two sessions; the marker of the first was
\* removed on the acknowledgement of its final segment while segments of the
\* second are still queued.
C40_SecondSessionQueued ==
    \E participant \in Participants :
        /\ \E i \in DOMAIN enqueued[participant] : enqueued[participant][i].session_id = 1
        /\ MarkersOf(participant) = {2}
        /\ segment_queues[participant] # <<>>
=============================================================================
